---- MODULE Spec2Model ----
(***************************************************************************)
(* Model of the PDF comparison agent: the task orchestrator                *)
(* (src/agent/neuro_ai_mock.py: Agent, Workflow), the comparison pipeline  *)
(* (src/agent/neuro_agent.py) and the pattern store                        *)
(* (src/agent/learning_module.py).                                         *)
(***************************************************************************)
EXTENDS Integers, Sequences, FiniteSets, TLC

VARIABLES
    tasks,         \* Agent.tasks: registered task name -> Task
    steps,         \* Workflow.steps, in declaration order
    pc,            \* position of the caller / Workflow.execute
    idx,           \* index of the step the for loop of execute is at
    results,       \* local `results` of execute: insertion-ordered dict
    context,       \* the context dict the caller holds and passes to execute
    step_context,  \* the kwargs handed to the task being executed
    status,        \* per step of the run: state of its task execution
    calls,         \* log of task.func invocations (step names)
    attempts,      \* times execute_task has called task.func for this step
    error,         \* the exception propagating to the caller
    returned,      \* the value returned to the caller
    caller,        \* who called Workflow.execute
    learning_module, \* the agent's LearningModule (neuro_ai_mock): patterns, statistics
    disk,          \* the document at storage_path (models/learning_data.json)
    clock,         \* time.time()
    patterns,      \* LearningModule.patterns (learning_module.py)
    statistics,    \* LearningModule.statistics
    frequent_changes,    \* LearningModule.frequent_changes
    performance_metrics, \* LearningModule.performance_metrics
    store_pc,      \* the pattern store's process: down, idle, or inside a write
    mutations,     \* number of mutating store operations started so far
    history,       \* the store's in-memory state after each mutation so far
    recorded,      \* per pattern key: the times update_patterns recorded it
    performed,     \* per operation: the update_performance_metrics calls so far
    sessions       \* per Streamlit session: the LearningModule of its agent

wfVars == <<tasks, steps, pc, idx, results, context, step_context, status,
            calls, attempts, error, returned, caller>>

lmVars == <<learning_module, disk, clock>>

storeVars == <<patterns, statistics, frequent_changes, performance_metrics,
               store_pc, mutations, history, recorded, performed, sessions>>

vars == <<wfVars, lmVars, storeVars>>

----------------------------------------------------------------------------
(* Bounds of the model.                                                    *)

MaxSteps == 3

StepNames == {"a", "b"}
TaskNames == {"t1", "t2"}
DepChoices == {{}, {"a"}, {"b"}}

----------------------------------------------------------------------------
(* Python dicts: functions whose domain is the set of keys present.        *)

EmptyDict == [k \in {} |-> 0]

\* dict.update(e) on a copy of d: keys of e overwrite those of d
DictUpdate(d, e) ==
    [k \in (DOMAIN d) \cup (DOMAIN e) |-> IF k \in DOMAIN e THEN e[k] ELSE d[k]]

\* values a task can return: a dict, or something that is not a dict
DictOut(d) == [isdict |-> TRUE, d |-> d]
NonDictOut == [isdict |-> FALSE, d |-> EmptyDict]

None == [kind |-> "None", value |-> <<>>]
Value(v) == [kind |-> "value", value |-> v]
NoError == [kind |-> "none", step |-> "", at |-> 0]

----------------------------------------------------------------------------
(* TaskStatus, Task, WorkflowStep                                          *)

TaskStatus == {"pending", "running", "completed", "failed", "cancelled"}

\* Task(name, func): the dataclass defaults
DefaultRetryAttempts == 3
DefaultTimeout == 300

Task(func, timeout, retry_attempts) ==
    [func |-> func, timeout |-> timeout, retry_attempts |-> retry_attempts]

WorkflowStep(name, task, dependencies) ==
    [name |-> name, task |-> task, dependencies |-> dependencies]

----------------------------------------------------------------------------
(* The insertion-ordered dict `results` of Workflow.execute: a sequence of *)
(* <<key, value>> entries, a key keeps the place of its first insertion.   *)

ResultKeys(res) == {res[i].name : i \in 1..Len(res)}

ResultSet(res, name, out) ==
    IF name \in ResultKeys(res)
    THEN [i \in 1..Len(res) |->
             IF res[i].name = name THEN [name |-> name, out |-> out] ELSE res[i]]
    ELSE Append(res, [name |-> name, out |-> out])

ResultGet(res, name) ==
    res[CHOOSE i \in 1..Len(res) : res[i].name = name].out

----------------------------------------------------------------------------
(* Workflow._topological_sort: returns the steps as declared.              *)

TopologicalSortReversed(s) == [i \in 1..Len(s) |-> s[Len(s) + 1 - i]]

TopologicalSort(s) == s

(* Workflow._check_dependencies: every dependency name is a key of results *)

CheckDependenciesAlways(step, res) == TRUE

CheckDependencies(step, res) ==
    \A dep \in step.dependencies : dep \in ResultKeys(res)

(* The step context: a copy of the caller's context updated with every     *)
(* dict result so far, in the iteration order of `results`.                *)

\* a variant of the merge in which a key already in the context is kept
RECURSIVE MergeResultsKeepsFirst(_, _, _)
MergeResultsKeepsFirst(ctx, res, n) ==
    IF n = 0 THEN ctx
    ELSE LET before == MergeResultsKeepsFirst(ctx, res, n - 1)
         IN  IF res[n].out.isdict THEN DictUpdate(res[n].out.d, before)
             ELSE before

RECURSIVE MergeResults(_, _, _)
MergeResults(ctx, res, n) ==
    IF n = 0 THEN ctx
    ELSE LET before == MergeResults(ctx, res, n - 1)
         IN  IF res[n].out.isdict THEN DictUpdate(before, res[n].out.d)
             ELSE before

StepContext(ctx, res) == MergeResults(ctx, res, Len(res))

----------------------------------------------------------------------------
(* difflib.SequenceMatcher(None, a, b) on two lists of lines, as used by   *)
(* TextComparator._compare_page_text.  Positions are 0-based and intervals *)
(* half open, as in difflib; a[i] of Python is a[i + 1] here.  No element  *)
(* is junk, and lists shorter than 200 lines have no "popular" elements.   *)

\* length of the common run of a[i:ahi] and b[j:bhi]
RECURSIVE RunLength(_, _, _, _, _, _)
RunLength(a, b, i, j, ahi, bhi) ==
    IF i < ahi /\ j < bhi /\ a[i + 1] = b[j + 1]
    THEN 1 + RunLength(a, b, i + 1, j + 1, ahi, bhi)
    ELSE 0

\* find_longest_match: the longest matching block in a[alo:ahi], b[blo:bhi];
\* of the longest ones the one starting earliest in a, then earliest in b
FindLongestMatch(a, b, alo, ahi, blo, bhi) ==
    LET Starts == (alo..(ahi - 1)) \X (blo..(bhi - 1))
        Size(p) == RunLength(a, b, p[1], p[2], ahi, bhi)
        Better(p, q) ==
            \/ Size(p) > Size(q)
            \/ Size(p) = Size(q) /\ p[1] < q[1]
            \/ Size(p) = Size(q) /\ p[1] = q[1] /\ p[2] <= q[2]
    IN  IF Starts = {} \/ \A p \in Starts : Size(p) = 0
        THEN <<alo, blo, 0>>
        ELSE LET best == CHOOSE p \in Starts : \A q \in Starts : Better(p, q)
             IN  <<best[1], best[2], Size(best)>>

\* get_matching_blocks without the final sentinel: the longest match, then
\* recursively the pieces to its left and to its right, in increasing order
RECURSIVE MatchingBlocks(_, _, _, _, _, _)
MatchingBlocks(a, b, alo, ahi, blo, bhi) ==
    LET m == FindLongestMatch(a, b, alo, ahi, blo, bhi)
        i == m[1]
        j == m[2]
        k == m[3]
    IN  IF k = 0 THEN <<>>
        ELSE (IF alo < i /\ blo < j
              THEN MatchingBlocks(a, b, alo, i, blo, j) ELSE <<>>)
             \o <<m>> \o
             (IF i + k < ahi /\ j + k < bhi
              THEN MatchingBlocks(a, b, i + k, ahi, j + k, bhi) ELSE <<>>)

\* get_opcodes, without the 'equal' opcodes (the comparator skips them):
\* <<tag, i1, i2, j1, j2>> for every gap before a matching block
RECURSIVE OpcodesFrom(_, _, _, _)
OpcodesFrom(blocks, n, i, j) ==
    IF n > Len(blocks) THEN <<>>
    ELSE LET ai == blocks[n][1]
             bj == blocks[n][2]
             size == blocks[n][3]
             tag == IF i < ai /\ j < bj THEN "replace"
                    ELSE IF i < ai THEN "delete"
                    ELSE IF j < bj THEN "insert"
                    ELSE ""
         IN  (IF tag # "" THEN << <<tag, i, ai, j, bj>> >> ELSE <<>>)
             \o OpcodesFrom(blocks, n + 1, ai + size, bj + size)

GetOpcodes(a, b) ==
    OpcodesFrom(MatchingBlocks(a, b, 0, Len(a), 0, Len(b))
                    \o << <<Len(a), Len(b), 0>> >>, 1, 0, 0)

----------------------------------------------------------------------------
(* TextComparator                                                          *)

\* the records of one opcode: a 'replace' reports its first line pair only,
\* 'delete' and 'insert' report every line
OpcodeRecords(op, ref_lines, new_lines, page_num) ==
    LET tag == op[1]
        i1 == op[2]
        i2 == op[3]
        j1 == op[4]
        j2 == op[5]
    IN  IF tag = "replace"
        THEN << [kind |-> "changed", page |-> page_num, line |-> i1 + 1,
                 old |-> ref_lines[i1 + 1], new |-> new_lines[j1 + 1]] >>
        ELSE IF tag = "delete"
        THEN [n \in 1..(i2 - i1) |->
                 [kind |-> "removed", page |-> page_num, line |-> i1 + n,
                  old |-> ref_lines[i1 + n], new |-> ""]]
        ELSE [n \in 1..(j2 - j1) |->
                 [kind |-> "added", page |-> page_num, line |-> j1 + n,
                  old |-> "", new |-> new_lines[j1 + n]]]

RECURSIVE RecordsOfOpcodes(_, _, _, _, _)
RecordsOfOpcodes(ops, n, ref_lines, new_lines, page_num) ==
    IF n > Len(ops) THEN <<>>
    ELSE OpcodeRecords(ops[n], ref_lines, new_lines, page_num)
         \o RecordsOfOpcodes(ops, n + 1, ref_lines, new_lines, page_num)

\* TextComparator._compare_page_text; a page text is its list of lines
ComparePageText(ref_lines, new_lines, page_num) ==
    RecordsOfOpcodes(GetOpcodes(ref_lines, new_lines), 1, ref_lines, new_lines,
                     page_num)

\* {page['page_num']: page['text'] for page in pages}
PageNumbers(pages) == {pages[i].page_num : i \in 1..Len(pages)}
PageText(pages, num) ==
    pages[CHOOSE i \in 1..Len(pages) :
              /\ pages[i].page_num = num
              /\ \A k \in (i + 1)..Len(pages) : pages[k].page_num # num].text

MaxPageNumber(doc1_pages, doc2_pages) ==
    LET nums == PageNumbers(doc1_pages) \cup PageNumbers(doc2_pages)
    IN  IF nums = {} THEN 0 ELSE CHOOSE n \in nums : \A m \in nums : m <= n

\* TextComparator.compare: the pages of both documents by page number
RECURSIVE ComparePagesFrom(_, _, _, _)
ComparePagesFrom(doc1_pages, doc2_pages, page_num, last) ==
    IF page_num > last THEN <<>>
    ELSE (IF page_num \notin PageNumbers(doc1_pages) \cup PageNumbers(doc2_pages)
          THEN <<>>
          ELSE IF page_num \notin PageNumbers(doc1_pages)
          THEN << [kind |-> "page_added", page |-> page_num, line |-> 0,
                   old |-> "", new |-> ""] >>
          ELSE IF page_num \notin PageNumbers(doc2_pages)
          THEN << [kind |-> "page_removed", page |-> page_num, line |-> 0,
                   old |-> "", new |-> ""] >>
          ELSE ComparePageText(PageText(doc1_pages, page_num),
                               PageText(doc2_pages, page_num), page_num))
         \o ComparePagesFrom(doc1_pages, doc2_pages, page_num + 1, last)

TextCompare(doc1_pages, doc2_pages) ==
    ComparePagesFrom(doc1_pages, doc2_pages, 1,
                     MaxPageNumber(doc1_pages, doc2_pages))

----------------------------------------------------------------------------
(* config/settings.py: SENSITIVITY_LEVELS (the fields the comparators      *)
(* read; font size tolerances in tenths of a point, layout tolerances in   *)
(* pixels) and                                                             *)
(* get_sensitivity_config, which falls back to "medium".                   *)

SensitivityLevels ==
    [high |->
        [text |-> [strict |-> TRUE, ignore_whitespace |-> FALSE,
                   ignore_case |-> FALSE, ignore_punctuation |-> FALSE],
         font |-> [size_tolerance |-> 1, style_check |-> TRUE,
                   family_check |-> TRUE, color_check |-> TRUE],
         image |-> [hash_algorithm |-> "sha256"],
         layout |-> [position_tolerance |-> 1, size_tolerance |-> 1,
                     margin_check |-> TRUE]],
     medium |->
        [text |-> [strict |-> TRUE, ignore_whitespace |-> TRUE,
                   ignore_case |-> FALSE, ignore_punctuation |-> FALSE],
         font |-> [size_tolerance |-> 5, style_check |-> TRUE,
                   family_check |-> TRUE, color_check |-> FALSE],
         image |-> [hash_algorithm |-> "md5"],
         layout |-> [position_tolerance |-> 5, size_tolerance |-> 5,
                     margin_check |-> FALSE]],
     low |->
        [text |-> [strict |-> FALSE, ignore_whitespace |-> TRUE,
                   ignore_case |-> TRUE, ignore_punctuation |-> TRUE],
         font |-> [size_tolerance |-> 10, style_check |-> FALSE,
                   family_check |-> FALSE, color_check |-> FALSE],
         image |-> [hash_algorithm |-> "md5"],
         layout |-> [position_tolerance |-> 10, size_tolerance |-> 10,
                     margin_check |-> FALSE]]]

GetSensitivityConfig(level) ==
    IF level \in DOMAIN SensitivityLevels THEN SensitivityLevels[level]
    ELSE SensitivityLevels["medium"]

----------------------------------------------------------------------------
(* The corpus: what the file system and the PDF library can present to the *)
(* pipeline.                                                               *)

Files == {"f1.pdf", "f2.pdf"}

FolderExists(folder) == folder # "missing_dir"

Page(n, lines) == [page_num |-> n, text |-> lines]
Font(name, size) == [name |-> name, size |-> size, color |-> 0, flags |-> 0]

\* PDFParser.parse_pdf: the result of a successful extraction
Extracted(text, images, fonts) ==
    [text |-> text, images |-> images, fonts |-> fonts, layout |-> "page_size"]

\* PDFParser.parse_pdf when fitz raises: the initial result plus "error"
ExtractionFailed ==
    [text |-> <<>>, images |-> <<>>, fonts |-> {}, layout |-> "none",
     error |-> "parse failed"]

\* the documents a file can hold
DocumentChoices ==
    { Extracted(<<Page(1, <<"A", "B">>)>>, <<"img1">>, {Font("Arial", 100)}),
      Extracted(<<Page(1, <<"A", "X">>)>>, <<"img2">>, {Font("Arial", 100)}),
      Extracted(<<Page(1, <<"A", "B">>), Page(2, <<"C">>)>>, <<"img1", "img2">>,
                {Font("Arial", 100), Font("Times", 120)}) }

\* PDFParser.parse_pdf: what parsing one file can give
ParsePdf == DocumentChoices \cup {ExtractionFailed}

\* all dicts with exactly the keys `keys` and values from `values`
Dicts(keys, values) == [keys -> values]

----------------------------------------------------------------------------
(* The task functions of PDFComparisonNeuroAgent.  Each gives the set of   *)
(* outcomes of the call with the step context as keyword arguments: the    *)
(* choice among them is the environment's (folders, files, the PDF         *)
(* library, the summarization service, the report writers).                *)

Return(out) == [kind |-> "return", out |-> out]
Raise == [kind |-> "raise", out |-> NonDictOut]

Abs(x) == IF x < 0 THEN -x ELSE x

\* scan_folders
ScanFolders(ctx) ==
    IF ~FolderExists(ctx.ref_folder) \/ ~FolderExists(ctx.new_folder)
    THEN {Raise}
    ELSE { Return(DictOut(
               [ref_files |-> ref_files,
                new_files |-> new_files,
                file_mapping |-> [f \in ref_files \cap new_files |->
                                     [reference |-> <<ctx.ref_folder, f>>,
                                      new |-> <<ctx.new_folder, f>>]],
                total_files |-> Cardinality(ref_files \cap new_files)]))
           : ref_files \in SUBSET Files, new_files \in SUBSET Files }

\* validate_files: validate_pdf answers for the two files of every pair
ValidateFiles(ctx) ==
    { Return(DictOut(
          LET valid == {f \in DOMAIN ctx.file_mapping :
                            answers[f].ref_valid /\ answers[f].new_valid}
          IN  [validated_files |-> [f \in valid |-> ctx.file_mapping[f]],
               validation_errors |->
                   {[filename |-> f, error |-> "Invalid PDF file",
                     ref_valid |-> answers[f].ref_valid,
                     new_valid |-> answers[f].new_valid] :
                        f \in (DOMAIN ctx.file_mapping) \ valid},
               valid_count |-> Cardinality(valid)]))
      : answers \in Dicts(DOMAIN ctx.file_mapping,
                          [ref_valid : BOOLEAN, new_valid : BOOLEAN]) }

\* parse_pdfs: parse_pdf never raises, so every entry has both documents
ParsePdfs(ctx) ==
    { Return(DictOut(
          [parsed_content |-> parsed,
           success_count |->
               Cardinality({f \in DOMAIN parsed : "error" \notin DOMAIN parsed[f]})]))
      : parsed \in Dicts(DOMAIN ctx.validated_files,
                         [reference : ParsePdf, new : ParsePdf]) }

\* compare_content: the body of the loop for one file
FileDifferences(content) ==
    LET text_diff == TextCompare(content.reference.text, content.new.text)
        image_diff_count ==
            Abs(Len(content.reference.images) - Len(content.new.images))
        image_diff == IF image_diff_count > 0
                      THEN <<[changed |-> image_diff_count]>> ELSE <<>>
        font_diff_count ==
            Abs(Cardinality(content.reference.fonts)
                    - Cardinality(content.new.fonts))
        font_diff == IF font_diff_count > 0
                     THEN <<[changed |-> font_diff_count]>> ELSE <<>>
    IN  [text |-> text_diff, images |-> image_diff, fonts |-> font_diff]

TotalDiffs(d) == Len(d.text) + Len(d.images) + Len(d.fonts)

\* sum of f over the finite set S
RECURSIVE SumOver(_, _)
SumOver(S, f) ==
    IF S = {} THEN 0
    ELSE LET x == CHOOSE y \in S : TRUE
         IN  f[x] + SumOver(S \ {x}, f)

HasErrorKey(content) == "error" \in DOMAIN content

\* a variant of compare_content that adds one to total_changes per changed
\* file instead of the file's number of records
CompareOutputCountsFiles(parsed, raising) ==
    LET failed == {f \in DOMAIN parsed : HasErrorKey(parsed[f])}
        compared == (DOMAIN parsed) \ failed
        diffs == [f \in compared \ raising |-> FileDifferences(parsed[f])]
        changed == {f \in compared \ raising : TotalDiffs(diffs[f]) > 0}
    IN  [differences |->
             [f \in failed \cup raising \cup changed |->
                 IF f \in failed THEN [error |-> parsed[f].error]
                 ELSE IF f \in raising THEN [error |-> "compare failed"]
                 ELSE diffs[f]],
         change_summary |->
             [total_files |-> Cardinality(compared),
              files_with_changes |-> Cardinality(changed),
              total_changes |-> Cardinality(changed)]]

\* compare_content.  A comparator call may raise for a file (raising): the
\* except branch of the loop body records the error for that file, after
\* total_files was counted, and the loop goes on.
CompareOutput(parsed, raising) ==
    LET failed == {f \in DOMAIN parsed : HasErrorKey(parsed[f])}
        compared == (DOMAIN parsed) \ failed
        diffs == [f \in compared \ raising |-> FileDifferences(parsed[f])]
        changed == {f \in compared \ raising : TotalDiffs(diffs[f]) > 0}
    IN  [differences |->
             [f \in failed \cup raising \cup changed |->
                 IF f \in failed THEN [error |-> parsed[f].error]
                 ELSE IF f \in raising THEN [error |-> "compare failed"]
                 ELSE diffs[f]],
         change_summary |->
             [total_files |-> Cardinality(compared),
              files_with_changes |-> Cardinality(changed),
              total_changes |->
                  SumOver(changed, [f \in changed |-> TotalDiffs(diffs[f])])]]

\* a variant of compare_content without the try/except in the loop body
CompareContentUnguarded(ctx) ==
    { IF raising = {} THEN Return(DictOut(CompareOutput(ctx.parsed_content, {})))
      ELSE Raise
      : raising \in SUBSET {f \in DOMAIN ctx.parsed_content :
                                ~HasErrorKey(ctx.parsed_content[f])} }

CompareContent(ctx) ==
    { Return(DictOut(CompareOutput(ctx.parsed_content, raising)))
      : raising \in SUBSET {f \in DOMAIN ctx.parsed_content :
                                ~HasErrorKey(ctx.parsed_content[f])} }

\* LocalLLMAnalyzer.generate_summary
FileHasChanges(diff) ==
    \E cat \in {"text", "images", "fonts"} :
        cat \in DOMAIN diff /\ Len(diff[cat]) > 0

GenerateSummary(differences, testing_mode, llm_reachable) ==
    IF DOMAIN differences = {}
    THEN [source |-> "no_differences", mode |-> testing_mode,
          total_files |-> 0, files_with_changes |-> 0]
    ELSE IF llm_reachable
    THEN [source |-> "llm", mode |-> testing_mode,
          total_files |-> 0, files_with_changes |-> 0]
    ELSE [source |-> "fallback", mode |-> testing_mode,
          total_files |-> Cardinality(DOMAIN differences),
          files_with_changes |->
              Cardinality({f \in DOMAIN differences :
                               FileHasChanges(differences[f])})]

\* analyze_with_llm: the three analyses, or the fallback of the except branch
AnalyzeWithLlm(ctx) ==
    { Return(DictOut(
          [intelligent_summary |->
               GenerateSummary(ctx.differences, ctx.testing_mode, reachable),
           severity_assessment |-> IF reachable THEN "llm" ELSE "fallback",
           pattern_analysis |-> IF reachable THEN "llm" ELSE "fallback"]))
      : reachable \in BOOLEAN }
    \cup
    { Return(DictOut(
          [intelligent_summary |-> "LLM analysis unavailable",
           severity_assessment |-> "empty",
           pattern_analysis |-> "empty",
           error |-> "analysis failed"])) }

\* a variant of generate_report without the try/except: a failing report
\* writer raises out of the step
GenerateReportUnguarded(ctx) ==
    { Return(DictOut([html_report |-> "html", pdf_report |-> "pdf_path",
                      excel_report |-> "excel_path"])),
      Raise }

\* generate_report: the three reports, or the error of the except branch
GenerateReport(ctx) ==
    { Return(DictOut([html_report |-> "html", pdf_report |-> "pdf_path",
                      excel_report |-> "excel_path"])),
      Return(DictOut([error |-> "report failed"])) }

----------------------------------------------------------------------------
(* LearningModule of neuro_ai_mock.py, the one the agent imports and       *)
(* constructs.  The file at storage_path is missing, unreadable as JSON,   *)
(* or holds a document.                                                    *)

Missing == [kind |-> "missing", doc |-> EmptyDict]
Corrupt == [kind |-> "corrupt", doc |-> EmptyDict]
Document(d) == [kind |-> "doc", doc |-> d]

DictGet(d, k, default) == IF k \in DOMAIN d THEN d[k] ELSE default

\* LearningModule.__init__ and _load_data (neuro_ai_mock)
MockLoadData(file) ==
    IF file.kind = "doc"
    THEN [patterns |-> DictGet(file.doc, "patterns", EmptyDict),
          statistics |-> DictGet(file.doc, "statistics", EmptyDict)]
    ELSE [patterns |-> EmptyDict, statistics |-> EmptyDict]

\* _save_data (neuro_ai_mock): the document written on success; a failure is
\* logged and swallowed, leaving the old file, or a truncated one when the
\* write stops after open(..., 'w')
MockDocument(lm) == [patterns |-> lm.patterns, statistics |-> lm.statistics]

MockSaveData(lm, file) == {Document(MockDocument(lm)), file, Corrupt}

\* _extract_pattern_key (neuro_ai_mock): "<type>_<severity>" of the data
MockExtractPatternKey(data) ==
    <<DictGet(data, "type", "unknown"), DictGet(data, "severity", "unknown")>>

\* update_patterns (neuro_ai_mock), without the save
MockUpdatePatterns(lm, comparison_data, now) ==
    LET pattern_key == MockExtractPatternKey(comparison_data)
    IN  [lm EXCEPT !.patterns =
            IF pattern_key \notin DOMAIN lm.patterns
            THEN DictUpdate(lm.patterns,
                     [k \in {pattern_key} |->
                         [count |-> 0, first_seen |-> now, last_seen |-> now,
                          data |-> comparison_data]])
            ELSE [lm.patterns EXCEPT
                     ![pattern_key].count = @ + 1,
                     ![pattern_key].last_seen = now]]

\* update_statistics (neuro_ai_mock), without the save
MockUpdateStatistics(lm, metric, value) ==
    [lm EXCEPT !.statistics =
        DictUpdate(lm.statistics,
            [k \in {metric} |->
                Append(DictGet(lm.statistics, metric, <<>>), value)])]

\* the orders in which a dict with the keys S can be iterated
Orders(S) ==
    {o \in [1..Cardinality(S) -> S] :
        \A i, j \in 1..Cardinality(S) : i # j => o[i] # o[j]}

\* a mutation of the module followed by _save_data: the module and the
\* file afterwards
MockSaved(lm, file) == {[lm |-> lm, file |-> f] : f \in MockSaveData(lm, file)}

\* the loop of update_learning over differences.items(): the states the
\* module and its file can be in after the first n files
RECURSIVE LearnFiles(_, _, _, _, _)
LearnFiles(start, differences, order, n, now) ==
    IF n = 0 THEN {start}
    ELSE LET before == LearnFiles(start, differences, order, n - 1, now)
             filename == order[n]
         IN  IF "error" \notin DOMAIN differences[filename]
             THEN UNION { MockSaved(MockUpdatePatterns(st.lm,
                                        [filename |-> filename,
                                         differences |-> differences[filename],
                                         timestamp |-> now], now),
                                    st.file) : st \in before }
             ELSE before

\* update_learning: the module and the file after the updates, and the
\* step's output
UpdateLearning(ctx) ==
    LET differences == ctx.differences
        files == DOMAIN differences
        total_changes ==
            SumOver({f \in files : "error" \notin DOMAIN differences[f]},
                    [f \in files |-> DictGet(differences[f], "total_changes", 0)])
        AfterFiles(order) ==
            LearnFiles([lm |-> learning_module, file |-> disk], differences,
                       order, Cardinality(files), clock)
        AfterTotal(order) ==
            UNION { MockSaved(MockUpdateStatistics(st.lm, "total_changes",
                                                   total_changes), st.file)
                    : st \in AfterFiles(order) }
        AfterProcessed(order) ==
            UNION { MockSaved(MockUpdateStatistics(st.lm, "files_processed",
                                                   Cardinality(files)), st.file)
                    : st \in AfterTotal(order) }
    IN  { [kind |-> "return",
           out |-> DictOut([patterns_updated |-> Cardinality(files),
                            statistics_updated |-> TRUE]),
           lm |-> st.lm,
           file |-> st.file]
          : st \in UNION {AfterProcessed(order) : order \in Orders(files)} }

----------------------------------------------------------------------------
(* Task functions registered by other callers ("generic"): such a function *)
(* may return a dict, return a non-dict value, or raise; the value records *)
(* the index of the step that produced it.                                 *)

GenericOutcomes(i) ==
    { Return(DictOut([k \in {"k1"} |-> i])),
      Return(DictOut([k \in {"k2"} |-> i])),
      Return(NonDictOut),
      Raise }

\* the parameters without a default of the agent's task functions
RequiredParams(func) ==
    CASE func = "scan_folders" -> {"ref_folder", "new_folder"}
      [] func = "validate_files" -> {"ref_files", "new_files", "file_mapping"}
      [] func = "parse_pdfs" -> {"validated_files"}
      [] func = "compare_content" -> {"parsed_content", "sensitivity_config"}
      [] func = "analyze_with_llm" -> {"differences"}
      [] func = "generate_report" -> {"differences", "intelligent_summary"}
      [] func = "update_learning" -> {"differences"}
      [] OTHER -> {}

\* the outcomes of task.func called with the step context as keyword
\* arguments: a missing required argument is a TypeError
TaskOutcomes(func, ctx, i) ==
    IF ~(RequiredParams(func) \subseteq DOMAIN ctx) THEN {Raise}
    ELSE
    CASE func = "scan_folders" -> ScanFolders(ctx)
      [] func = "validate_files" -> ValidateFiles(ctx)
      [] func = "parse_pdfs" -> ParsePdfs(ctx)
      [] func = "compare_content" -> CompareContent(ctx)
      [] func = "analyze_with_llm" -> AnalyzeWithLlm(ctx)
      [] func = "generate_report" -> GenerateReport(ctx)
      [] func = "update_learning" -> UpdateLearning(ctx)
      [] OTHER -> GenericOutcomes(i)

\* PDFComparisonNeuroAgent.setup_tasks
MainTasks ==
    [scan_folders |-> Task("scan_folders", 60, 2),
     validate_files |-> Task("validate_files", 30, 1),
     parse_pdfs |-> Task("parse_pdfs", 300, 2),
     compare_content |-> Task("compare_content", 600, 3),
     analyze_with_llm |-> Task("analyze_with_llm", 120, 2),
     generate_report |-> Task("generate_report", 180, 1),
     update_learning |-> Task("update_learning", 60, 1)]

\* PDFComparisonNeuroAgent.setup_workflows
MainSteps ==
    << WorkflowStep("scan", "scan_folders", {}),
       WorkflowStep("validate", "validate_files", {"scan"}),
       WorkflowStep("parse", "parse_pdfs", {"validate"}),
       WorkflowStep("compare", "compare_content", {"parse"}),
       WorkflowStep("analyze", "analyze_with_llm", {"compare"}),
       WorkflowStep("report", "generate_report", {"analyze"}),
       WorkflowStep("learn", "update_learning", {"report"}) >>

----------------------------------------------------------------------------
(* Agent.__init__ / Workflow.__init__: empty registries.                   *)

InitOrchestrator ==
    /\ tasks = EmptyDict
    /\ steps = <<>>
    /\ pc = "setup"
    /\ idx = 0
    /\ results = <<>>
    /\ context = [k \in {"k1"} |-> 0]
    /\ step_context = EmptyDict
    /\ status = <<>>
    /\ calls = <<>>
    /\ attempts = 0
    /\ error = NoError
    /\ returned = None
    /\ caller = ""
    /\ learning_module = MockLoadData(Missing)
    /\ sessions = EmptyDict
    /\ disk = Missing
    /\ clock = 0
    /\ patterns = EmptyDict
    /\ statistics = EmptyDict
    /\ frequent_changes = EmptyDict
    /\ performance_metrics = EmptyDict
    /\ store_pc = "down"
    /\ mutations = 0
    /\ history = <<>>
    /\ recorded = EmptyDict
    /\ performed = EmptyDict

(* Agent.add_task *)
AddTask ==
    /\ pc = "setup"
    /\ \E name \in TaskNames :
          /\ name \notin DOMAIN tasks
          /\ tasks' = DictUpdate(tasks,
                 [n \in {name} |-> Task("generic", DefaultTimeout, DefaultRetryAttempts)])
    /\ UNCHANGED <<steps, pc, idx, results, context, step_context, status,
                   calls, attempts, error, returned>>
    /\ UNCHANGED <<caller, lmVars>>
    /\ UNCHANGED storeVars

(* Workflow.add_step *)
AddStep ==
    /\ pc = "setup"
    /\ Len(steps) < MaxSteps
    /\ \E name \in StepNames, task \in TaskNames, deps \in DepChoices :
          steps' = Append(steps, WorkflowStep(name, task, deps))
    /\ UNCHANGED <<tasks, pc, idx, results, context, step_context, status,
                   calls, attempts, error, returned>>
    /\ UNCHANGED <<caller, lmVars>>
    /\ UNCHANGED storeVars

(* Workflow.execute, up to the for loop *)
Execute ==
    /\ pc = "setup"
    /\ pc' = "loop"
    /\ idx' = 1
    /\ results' = <<>>
    /\ status' = [i \in 1..Len(steps) |-> "pending"]
    /\ caller' = "execute"
    /\ UNCHANGED <<tasks, steps, context, step_context, calls, attempts, error, returned>>
    /\ UNCHANGED lmVars
    /\ UNCHANGED storeVars

CurrentStep == TopologicalSort(steps)[idx]

AtStep == pc = "loop" /\ idx <= Len(TopologicalSort(steps))

(* the loop body when _check_dependencies fails: raise ValueError *)
StepDepsNotMet ==
    /\ AtStep
    /\ ~CheckDependencies(CurrentStep, results)
    /\ error' = [kind |-> "DependenciesNotMet", step |-> CurrentStep.name, at |-> idx]
    /\ pc' = "raised"
    /\ UNCHANGED <<tasks, steps, idx, results, context, step_context, status,
                   calls, attempts, returned>>
    /\ UNCHANGED <<caller, lmVars>>
    /\ UNCHANGED storeVars

(* a variant of the step below that marks the execution failed although *)
(* it never ran                                                         *)
StepTaskNotFoundMarksFailed ==
    /\ AtStep
    /\ CheckDependencies(CurrentStep, results)
    /\ CurrentStep.task \notin DOMAIN tasks
    /\ step_context' = StepContext(context, results)
    /\ status' = [status EXCEPT ![idx] = "failed"]
    /\ error' = [kind |-> "TaskNotFound", step |-> CurrentStep.name, at |-> idx]
    /\ pc' = "raised"
    /\ UNCHANGED <<tasks, steps, idx, results, context, calls, attempts, returned>>
    /\ UNCHANGED <<caller, lmVars>>
    /\ UNCHANGED storeVars

(* the loop body when Agent.execute_task finds no task of that name *)
StepTaskNotFound ==
    /\ AtStep
    /\ CheckDependencies(CurrentStep, results)
    /\ CurrentStep.task \notin DOMAIN tasks
    /\ step_context' = StepContext(context, results)
    /\ error' = [kind |-> "TaskNotFound", step |-> CurrentStep.name, at |-> idx]
    /\ pc' = "raised"
    /\ UNCHANGED <<tasks, steps, idx, results, context, status, calls, attempts, returned>>
    /\ UNCHANGED <<caller, lmVars>>
    /\ UNCHANGED storeVars

(* the loop body up to the call of task.func with the step context *)
StepInvoke ==
    /\ AtStep
    /\ CheckDependencies(CurrentStep, results)
    /\ CurrentStep.task \in DOMAIN tasks
    /\ step_context' = StepContext(context, results)
    /\ status' = [status EXCEPT ![idx] = "running"]
    /\ calls' = Append(calls, CurrentStep.name)
    /\ attempts' = 1
    /\ pc' = "running"
    /\ UNCHANGED <<tasks, steps, idx, results, context, error, returned>>
    /\ UNCHANGED <<caller, lmVars>>
    /\ UNCHANGED storeVars

(* task.func returned: execute_task returns, results[step.name] is set *)
TaskReturn ==
    /\ pc = "running"
    /\ \E o \in TaskOutcomes(tasks[CurrentStep.task].func, step_context, idx) :
          /\ o.kind = "return"
          /\ results' = ResultSet(results, CurrentStep.name, o.out)
          /\ learning_module' = IF "lm" \in DOMAIN o THEN o.lm ELSE learning_module
          /\ disk' = IF "file" \in DOMAIN o THEN o.file ELSE disk
    /\ status' = [status EXCEPT ![idx] = "completed"]
    /\ idx' = idx + 1
    /\ pc' = "loop"
    /\ UNCHANGED <<tasks, steps, context, step_context, calls, attempts, error,
                   returned, caller, clock>>
    /\ UNCHANGED storeVars

(* a variant of the step below in which the exception is logged and *)
(* swallowed, and the loop goes on to the next step                  *)
TaskRaiseSwallowed ==
    /\ pc = "running"
    /\ Raise \in TaskOutcomes(tasks[CurrentStep.task].func, step_context, idx)
    /\ status' = [status EXCEPT ![idx] = "failed"]
    /\ idx' = idx + 1
    /\ pc' = "loop"
    /\ UNCHANGED <<tasks, steps, results, context, step_context, calls, attempts,
                   error, returned>>
    /\ UNCHANGED <<caller, lmVars>>
    /\ UNCHANGED storeVars

(* task.func raised: execute_task logs and re-raises, so does execute *)
TaskRaise ==
    /\ pc = "running"
    /\ Raise \in TaskOutcomes(tasks[CurrentStep.task].func, step_context, idx)
    /\ status' = [status EXCEPT ![idx] = "failed"]
    /\ error' = [kind |-> "TaskFailed", step |-> CurrentStep.name, at |-> idx]
    /\ pc' = "raised"
    /\ UNCHANGED <<tasks, steps, idx, results, context, step_context, calls, attempts,
                   returned>>
    /\ UNCHANGED <<caller, lmVars>>
    /\ UNCHANGED storeVars

(* a variant of the step below that returns from inside the loop, after *)
(* the first step                                                       *)
FinishEarly ==
    /\ pc = "loop"
    /\ idx > 1
    /\ returned' = Value(results)
    /\ pc' = "returned"
    /\ UNCHANGED <<tasks, steps, idx, results, context, step_context, status,
                   calls, attempts, error>>
    /\ UNCHANGED <<caller, lmVars>>
    /\ UNCHANGED storeVars

(* the loop is exhausted: execute returns results *)
Finish ==
    /\ pc = "loop"
    /\ idx > Len(TopologicalSort(steps))
    /\ returned' = Value(results)
    /\ pc' = "returned"
    /\ UNCHANGED <<tasks, steps, idx, results, context, step_context, status,
                   calls, attempts, error>>
    /\ UNCHANGED <<caller, lmVars>>
    /\ UNCHANGED storeVars

(* PDFComparisonNeuroAgent.__init__: setup_tasks, setup_workflows and the *)
(* construction of the learning module, which loads the stored document   *)
AgentInit ==
    /\ pc = "setup"
    /\ tasks = EmptyDict
    /\ steps = <<>>
    /\ tasks' = MainTasks
    /\ steps' = MainSteps
    /\ learning_module' = MockLoadData(disk)
    /\ pc' = "ready"
    /\ UNCHANGED <<idx, results, context, step_context, status, calls, attempts,
                   error, returned, caller, disk, clock>>
    /\ UNCHANGED storeVars

SensitivityInputs == {"high", "medium", "extreme"}
FolderInputs == {"pdf_dir", "missing_dir"}
TestingModes == {"regression", "sit"}

(* run_comparison_workflow, up to the for loop of Workflow.execute *)
RunComparisonWorkflow ==
    /\ pc = "ready"
    /\ \E ref_folder \in FolderInputs, new_folder \in FolderInputs,
          sensitivity_level \in SensitivityInputs, testing_mode \in TestingModes :
          context' = [ref_folder |-> ref_folder,
                      new_folder |-> new_folder,
                      sensitivity_config |-> GetSensitivityConfig(sensitivity_level),
                      testing_mode |-> testing_mode,
                      config |-> "config",
                      start_time |-> clock]
    /\ caller' = "run_comparison_workflow"
    /\ pc' = "loop"
    /\ idx' = 1
    /\ results' = <<>>
    /\ status' = [i \in 1..Len(steps) |-> "pending"]
    /\ UNCHANGED <<tasks, steps, step_context, calls, attempts, error, returned>>
    /\ UNCHANGED lmVars
    /\ UNCHANGED storeVars

(* run_comparison_workflow after execute returned: the metadata entry *)
(* (its sensitivity_level field, a copy of the argument, is left out)  *)
ReturnResults ==
    /\ pc = "returned"
    /\ caller = "run_comparison_workflow"
    /\ returned' = Value(ResultSet(returned.value, "metadata",
                            DictOut([workflow_name |-> "PDF_Comparison_Workflow",
                                     execution_time |-> clock - context.start_time,
                                     status |-> "completed"])))
    /\ pc' = "done"
    /\ UNCHANGED <<tasks, steps, idx, results, context, step_context, status,
                   calls, attempts, error, caller>>
    /\ UNCHANGED lmVars
    /\ UNCHANGED storeVars

Init == InitOrchestrator

Next ==
    \/ AddTask
    \/ AddStep
    \/ Execute
    \/ StepDepsNotMet
    \/ StepTaskNotFound
    \/ StepInvoke
    \/ TaskReturn
    \/ TaskRaise
    \/ Finish
    \/ AgentInit
    \/ RunComparisonWorkflow
    \/ ReturnResults

Spec == Init /\ [][Next]_vars

----------------------------------------------------------------------------
(* LearningModule of learning_module.py: the pattern store.                *)

MaxMutations == 3
MaxTime == 2

\* the comparison results recorded by callers
ComparisonData ==
    { [filename |-> "f1.pdf",
       differences |-> << [type |-> "text", severity |-> "minor",
                           operation |-> "replace"] >>],
      [filename |-> "f2.pdf",
       differences |-> << [type |-> "font", severity |-> "major",
                           operation |-> "size"],
                          [type |-> "text", severity |-> "minor",
                           operation |-> "insert"] >>] }

StoreState ==
    [patterns |-> patterns, statistics |-> statistics,
     frequent_changes |-> frequent_changes,
     performance_metrics |-> performance_metrics]

EmptyStore ==
    [patterns |-> EmptyDict, statistics |-> EmptyDict,
     frequent_changes |-> EmptyDict, performance_metrics |-> EmptyDict]

\* _save_data: the document written
StoreDocument(st, now) ==
    [patterns |-> st.patterns, statistics |-> st.statistics,
     frequent_changes |-> st.frequent_changes,
     performance_metrics |-> st.performance_metrics,
     last_updated |-> now]

\* __init__ and _load_data: a missing file and a file that does not parse
\* both give the empty state
LoadData(file) ==
    IF file.kind = "doc"
    THEN [patterns |-> DictGet(file.doc, "patterns", EmptyDict),
          statistics |-> DictGet(file.doc, "statistics", EmptyDict),
          frequent_changes |-> DictGet(file.doc, "frequent_changes", EmptyDict),
          performance_metrics |-> DictGet(file.doc, "performance_metrics", EmptyDict)]
    ELSE EmptyStore

\* isinstance(diff, dict): an entry of another type is a record with the
\* single field nondict
IsDict(diff) == "nondict" \notin DOMAIN diff

\* the entries of data['differences'] that are dicts
DiffDicts(data) ==
    IF "differences" \in DOMAIN data
    THEN {i \in 1..Len(data.differences) : IsDict(data.differences[i])}
    ELSE {}

\* the order of Python's string comparison on the names in use
NameOrder ==
    <<"critical", "font", "image", "major", "medium", "minor", "no_changes",
      "no_severity", "text", "unknown">>

\* sorted(set(names))
SortedSet(names) == SelectSeq(NameOrder, LAMBDA n : n \in names)

\* a variant of _extract_pattern_key that joins the names in the order of
\* the records, without set() and sorted()
ExtractPatternKeyInRecordOrder(data) ==
    LET dicts == IF "differences" \in DOMAIN data
                 THEN SelectSeq(data.differences, IsDict) ELSE <<>>
        change_types == [i \in 1..Len(dicts) |-> DictGet(dicts[i], "type", "unknown")]
        severities == [i \in 1..Len(dicts) |-> DictGet(dicts[i], "severity", "unknown")]
    IN  (IF change_types = <<>> THEN <<"no_changes">> ELSE change_types)
        \o (IF severities = <<>> THEN <<"no_severity">> ELSE severities)

\* _extract_pattern_key: the sorted sets of the types and of the severities
\* of the dict entries of data['differences'], joined with "_"; the key is
\* the sequence of the joined names
ExtractPatternKey(data) ==
    LET change_types == {DictGet(data.differences[i], "type", "unknown")
                            : i \in DiffDicts(data)}
        severities == {DictGet(data.differences[i], "severity", "unknown")
                            : i \in DiffDicts(data)}
    IN  (IF change_types = {} THEN <<"no_changes">> ELSE SortedSet(change_types))
        \o (IF severities = {} THEN <<"no_severity">> ELSE SortedSet(severities))

\* _update_frequent_changes: one count per "<type>_<operation>" signature
RECURSIVE UpdateFrequentChanges(_, _, _)
UpdateFrequentChanges(fc, data, n) ==
    IF n = 0 THEN fc
    ELSE LET before == UpdateFrequentChanges(fc, data, n - 1)
             diff == data.differences[n]
             change_signature == <<DictGet(diff, "type", "unknown"),
                                   DictGet(diff, "operation", "unknown")>>
         IN  IF ~IsDict(diff) THEN before
             ELSE DictUpdate(before,
                      [k \in {change_signature} |->
                          DictGet(before, change_signature, 0) + 1])

MaxExamples == 10

\* a variant of the part below that drops the example just appended
\* instead of the oldest one
UpdatePatternEntryDropsNewest(pats, comparison_data, now) ==
    LET pattern_key == ExtractPatternKey(comparison_data)
        entry == IF pattern_key \notin DOMAIN pats
                 THEN [count |-> 0, first_seen |-> now, last_seen |-> now,
                       examples |-> <<>>, metadata |-> comparison_data]
                 ELSE [pats[pattern_key] EXCEPT !.count = @ + 1,
                                                !.last_seen = now]
        examples == Append(entry.examples,
                           [timestamp |-> now, data |-> comparison_data])
        kept == IF Len(examples) > MaxExamples
                THEN SubSeq(examples, 1, Len(examples) - 1) ELSE examples
    IN  DictUpdate(pats, [k \in {pattern_key} |-> [entry EXCEPT !.examples = kept]])

\* update_patterns, the part on self.patterns
UpdatePatternEntry(pats, comparison_data, now) ==
    LET pattern_key == ExtractPatternKey(comparison_data)
        entry == IF pattern_key \notin DOMAIN pats
                 THEN [count |-> 0, first_seen |-> now, last_seen |-> now,
                       examples |-> <<>>, metadata |-> comparison_data]
                 ELSE [pats[pattern_key] EXCEPT !.count = @ + 1,
                                                !.last_seen = now]
        examples == Append(entry.examples,
                           [timestamp |-> now, data |-> comparison_data])
        kept == IF Len(examples) > MaxExamples THEN Tail(examples) ELSE examples
    IN  DictUpdate(pats, [k \in {pattern_key} |-> [entry EXCEPT !.examples = kept]])

StoreIdle == store_pc = "idle" /\ mutations < MaxMutations

\* the end of every mutating method, self._save_data(): open(path, 'w')
\* either fails (logged, the file is left as it was) or truncates the file,
\* and the dump follows
StartSave(opened, st) ==
    /\ mutations' = mutations + 1
    /\ history' = Append(history, st)
    /\ IF opened
       THEN disk' = Corrupt /\ store_pc' = "writing"
       ELSE disk' = disk /\ store_pc' = "idle"

(* LearningModule(storage_path): a process constructs the store *)
Construct ==
    /\ store_pc = "down"
    /\ LET st == LoadData(disk)
       IN  /\ patterns' = st.patterns
           /\ statistics' = st.statistics
           /\ frequent_changes' = st.frequent_changes
           /\ performance_metrics' = st.performance_metrics
    /\ store_pc' = "idle"
    /\ UNCHANGED <<mutations, history, recorded, disk, clock, learning_module, sessions, performed>>
    /\ UNCHANGED wfVars

(* update_patterns, called with one of the results in data *)
UpdatePatternsWith(data) ==
    /\ \E comparison_data \in data, opened \in BOOLEAN :
          LET key == ExtractPatternKey(comparison_data)
          IN  /\ patterns' = UpdatePatternEntry(patterns, comparison_data, clock)
              /\ frequent_changes' =
                     UpdateFrequentChanges(frequent_changes, comparison_data,
                                           Len(comparison_data.differences))
              /\ recorded' = DictUpdate(recorded,
                     [k \in {key} |-> Append(DictGet(recorded, key, <<>>), clock)])
              /\ StartSave(opened, [StoreState EXCEPT
                                       !.patterns = patterns',
                                       !.frequent_changes = frequent_changes'])
    /\ UNCHANGED <<statistics, performance_metrics, clock, learning_module, sessions, performed>>
    /\ UNCHANGED wfVars

(* update_patterns *)
UpdatePatterns ==
    /\ StoreIdle
    /\ UpdatePatternsWith(ComparisonData)

(* update_statistics *)
UpdateStatistics ==
    /\ StoreIdle
    /\ \E metric \in {"total_changes"}, value \in {1}, opened \in BOOLEAN :
          LET entries == Append(DictGet(statistics, metric, <<>>),
                                [value |-> value, timestamp |-> clock])
              kept == IF Len(entries) > 1000
                      THEN SubSeq(entries, Len(entries) - 999, Len(entries))
                      ELSE entries
          IN  /\ statistics' = DictUpdate(statistics, [k \in {metric} |-> kept])
              /\ StartSave(opened, [StoreState EXCEPT !.statistics = statistics'])
    /\ UNCHANGED <<patterns, frequent_changes, performance_metrics, recorded,
                   clock, learning_module, sessions, performed>>
    /\ UNCHANGED wfVars

Infinity == 1000000
Min(x, y) == IF x < y THEN x ELSE y
Max(x, y) == IF x > y THEN x ELSE y

(* a variant of update_performance_metrics whose fresh entry has *)
(* min_duration 0 instead of infinity                           *)
UpdatePerformanceMetricsMinFromZero ==
    /\ StoreIdle
    /\ \E operation \in {"compare"}, duration \in {1, 3}, success \in BOOLEAN,
          opened \in BOOLEAN :
          LET old == DictGet(performance_metrics, operation,
                         [total_operations |-> 0, successful_operations |-> 0,
                          failed_operations |-> 0, total_duration |-> 0,
                          avg_duration |-> <<0, 1>>,
                          min_duration |-> 0, max_duration |-> 0])
              new == [total_operations |-> old.total_operations + 1,
                      total_duration |-> old.total_duration + duration,
                      successful_operations |->
                          old.successful_operations + (IF success THEN 1 ELSE 0),
                      failed_operations |->
                          old.failed_operations + (IF success THEN 0 ELSE 1),
                      avg_duration |-> <<old.total_duration + duration,
                                         old.total_operations + 1>>,
                      min_duration |-> Min(old.min_duration, duration),
                      max_duration |-> Max(old.max_duration, duration)]
          IN  /\ performance_metrics' =
                     DictUpdate(performance_metrics, [k \in {operation} |-> new])
              /\ performed' = DictUpdate(performed,
                     [k \in {operation} |->
                         Append(DictGet(performed, operation, <<>>),
                                [duration |-> duration, success |-> success])])
              /\ StartSave(opened, [StoreState EXCEPT
                                       !.performance_metrics = performance_metrics'])
    /\ UNCHANGED <<patterns, statistics, frequent_changes, recorded, clock,
                   learning_module, sessions>>
    /\ UNCHANGED wfVars

(* update_performance_metrics; avg_duration is kept as the quotient *)
(* total_duration / total_operations                                 *)
UpdatePerformanceMetrics ==
    /\ StoreIdle
    /\ \E operation \in {"compare"}, duration \in {1, 3}, success \in BOOLEAN,
          opened \in BOOLEAN :
          LET old == DictGet(performance_metrics, operation,
                         [total_operations |-> 0, successful_operations |-> 0,
                          failed_operations |-> 0, total_duration |-> 0,
                          avg_duration |-> <<0, 1>>,
                          min_duration |-> Infinity, max_duration |-> 0])
              new == [total_operations |-> old.total_operations + 1,
                      total_duration |-> old.total_duration + duration,
                      successful_operations |->
                          old.successful_operations + (IF success THEN 1 ELSE 0),
                      failed_operations |->
                          old.failed_operations + (IF success THEN 0 ELSE 1),
                      avg_duration |-> <<old.total_duration + duration,
                                         old.total_operations + 1>>,
                      min_duration |-> Min(old.min_duration, duration),
                      max_duration |-> Max(old.max_duration, duration)]
          IN  /\ performance_metrics' =
                     DictUpdate(performance_metrics, [k \in {operation} |-> new])
              /\ performed' = DictUpdate(performed,
                     [k \in {operation} |->
                         Append(DictGet(performed, operation, <<>>),
                                [duration |-> duration, success |-> success])])
              /\ StartSave(opened, [StoreState EXCEPT
                                       !.performance_metrics = performance_metrics'])
    /\ UNCHANGED <<patterns, statistics, frequent_changes, recorded, clock,
                   learning_module, sessions>>
    /\ UNCHANGED wfVars

\* [x for x in seq if Keep(x)] with Keep(x) == x.timestamp > cutoff
RECURSIVE NewerThan(_, _)
NewerThan(seq, cutoff) ==
    IF seq = <<>> THEN <<>>
    ELSE (IF Head(seq).timestamp > cutoff THEN <<Head(seq)>> ELSE <<>>)
         \o NewerThan(Tail(seq), cutoff)

(* a variant of clear_old_data that removes every pattern left without *)
(* examples, whatever its last_seen                                    *)
ClearOldDataIgnoresLastSeen ==
    /\ StoreIdle
    /\ \E keep \in {0, 1}, opened \in BOOLEAN :
          LET cutoff_time == clock - keep
              trimmed == [m \in DOMAIN statistics |->
                             NewerThan(statistics[m], cutoff_time)]
              recent == [k \in DOMAIN patterns |->
                            [patterns[k] EXCEPT
                                !.examples = NewerThan(@, cutoff_time)]]
              kept == {k \in DOMAIN patterns : recent[k].examples # <<>>}
          IN  /\ statistics' = [m \in {m \in DOMAIN statistics : trimmed[m] # <<>>}
                                   |-> trimmed[m]]
              /\ patterns' = [k \in kept |-> recent[k]]
              /\ StartSave(opened, [StoreState EXCEPT
                                       !.statistics = statistics',
                                       !.patterns = patterns'])
    /\ UNCHANGED <<frequent_changes, performance_metrics, recorded, clock,
                   learning_module, sessions, performed>>
    /\ UNCHANGED wfVars

(* clear_old_data; the age to keep is in units of the clock *)
ClearOldData ==
    /\ StoreIdle
    /\ \E keep \in {0, 1}, opened \in BOOLEAN :
          LET cutoff_time == clock - keep
              trimmed == [m \in DOMAIN statistics |->
                             NewerThan(statistics[m], cutoff_time)]
              recent == [k \in DOMAIN patterns |->
                            [patterns[k] EXCEPT
                                !.examples = NewerThan(@, cutoff_time)]]
              kept == {k \in DOMAIN patterns :
                          ~(recent[k].examples = <<>>
                            /\ recent[k].last_seen < cutoff_time)}
          IN  /\ statistics' = [m \in {m \in DOMAIN statistics : trimmed[m] # <<>>}
                                   |-> trimmed[m]]
              /\ patterns' = [k \in kept |-> recent[k]]
              /\ StartSave(opened, [StoreState EXCEPT
                                       !.statistics = statistics',
                                       !.patterns = patterns'])
    /\ UNCHANGED <<frequent_changes, performance_metrics, recorded, clock,
                   learning_module, sessions, performed>>
    /\ UNCHANGED wfVars

\* the documents import_learning_data is given
ImportDocuments ==
    { [frequent_changes |-> [k \in {<<"text", "replace">>} |-> 1],
       performance_metrics |->
           [compare |-> [total_operations |-> 1, successful_operations |-> 1,
                         failed_operations |-> 0, total_duration |-> 3,
                         avg_duration |-> <<3, 1>>,
                         min_duration |-> 3, max_duration |-> 3]]] }

\* import_learning_data: the merge of the performance metrics
MergePerformanceMetrics(pm, imported) ==
    [op \in (DOMAIN pm) \cup (DOMAIN imported) |->
        IF op \notin DOMAIN imported THEN pm[op]
        ELSE IF op \notin DOMAIN pm THEN imported[op]
        ELSE LET total_operations ==
                     pm[op].total_operations + imported[op].total_operations
                 total_duration ==
                     pm[op].total_duration + imported[op].total_duration
             IN  [pm[op] EXCEPT
                     !.total_operations = total_operations,
                     !.successful_operations =
                         @ + imported[op].successful_operations,
                     !.failed_operations = @ + imported[op].failed_operations,
                     !.total_duration = total_duration,
                     !.avg_duration = IF total_operations > 0
                                      THEN <<total_duration, total_operations>>
                                      ELSE @]]

(* import_learning_data of a readable document *)
ImportLearningData ==
    /\ StoreIdle
    /\ \E import_data \in ImportDocuments, opened \in BOOLEAN :
          LET fc == DictGet(import_data, "frequent_changes", EmptyDict)
          IN  /\ patterns' = DictUpdate(patterns,
                                 DictGet(import_data, "patterns", EmptyDict))
              /\ statistics' = DictUpdate(statistics,
                                 DictGet(import_data, "statistics", EmptyDict))
              /\ frequent_changes' =
                     [k \in (DOMAIN frequent_changes) \cup (DOMAIN fc) |->
                         DictGet(frequent_changes, k, 0) + DictGet(fc, k, 0)]
              /\ performance_metrics' =
                     MergePerformanceMetrics(performance_metrics,
                         DictGet(import_data, "performance_metrics", EmptyDict))
              /\ StartSave(opened, [patterns |-> patterns',
                                    statistics |-> statistics',
                                    frequent_changes |-> frequent_changes',
                                    performance_metrics |-> performance_metrics'])
    /\ UNCHANGED <<recorded, clock, learning_module, sessions, performed>>
    /\ UNCHANGED wfVars

(* json.dump wrote the whole document *)
WriteDone ==
    /\ store_pc = "writing"
    /\ disk' = Document(StoreDocument(StoreState, clock))
    /\ store_pc' = "idle"
    /\ UNCHANGED <<patterns, statistics, frequent_changes, performance_metrics,
                   mutations, history, recorded, clock, learning_module, sessions, performed>>
    /\ UNCHANGED wfVars

(* json.dump raised part way: logged and swallowed by _save_data *)
WriteFails ==
    /\ store_pc = "writing"
    /\ store_pc' = "idle"
    /\ UNCHANGED <<patterns, statistics, frequent_changes, performance_metrics,
                   mutations, history, recorded, disk, clock, learning_module, sessions, performed>>
    /\ UNCHANGED wfVars

(* the process holding the store dies *)
Crash ==
    /\ store_pc \in {"idle", "writing"}
    /\ store_pc' = "down"
    /\ UNCHANGED <<patterns, statistics, frequent_changes, performance_metrics,
                   mutations, history, recorded, disk, clock, learning_module, sessions, performed>>
    /\ UNCHANGED wfVars

(* time passes *)
Tick ==
    /\ clock < MaxTime
    /\ clock' = clock + 1
    /\ UNCHANGED <<learning_module, disk>>
    /\ UNCHANGED storeVars
    /\ UNCHANGED wfVars

NextStore ==
    \/ Construct
    \/ UpdatePatterns
    \/ UpdateStatistics
    \/ UpdatePerformanceMetrics
    \/ ClearOldData
    \/ ImportLearningData
    \/ WriteDone
    \/ WriteFails
    \/ Crash
    \/ Tick

SpecStore == Init /\ [][NextStore]_vars

NextRecording ==
    \/ Construct
    \/ UpdatePatterns
    \/ WriteDone
    \/ Tick

SpecRecording == Init /\ [][NextRecording]_vars

----------------------------------------------------------------------------
(* Properties of the orchestrator.                                         *)

Executing == pc # "setup"

NamesBefore(i) == {steps[j].name : j \in 1..(i - 1)}
NamesAfter(i) == {steps[j].name : j \in (i + 1)..Len(steps)}

\* step i lists a dependency that is declared only after it
DeclaredOutOfOrder(i) ==
    \E dep \in steps[i].dependencies :
        dep \notin NamesBefore(i) /\ dep \in NamesAfter(i)

\* the names of the steps whose task was invoked, as positions of the run
NumCalls == Len(calls)

C2_FailureAborts ==
    /\ \A i \in 1..Len(status) :
           status[i] = "failed" =>
               /\ pc = "raised"
               /\ error.kind = "TaskFailed"
               /\ error.at = i
    /\ error.kind \in {"TaskFailed", "TaskNotFound"} =>
           /\ pc = "raised"
           /\ returned.kind = "None"
           /\ error.step = steps[error.at].name
           /\ NumCalls = (IF error.kind = "TaskFailed" THEN error.at
                          ELSE error.at - 1)
           /\ \A j \in (error.at + 1)..Len(steps) : status[j] = "pending"
           /\ ~ENABLED StepInvoke

C2_Witness ==
    /\ pc = "raised"
    /\ error.kind \in {"TaskFailed", "TaskNotFound"}
    /\ error.at >= 2
    /\ error.at < Len(steps)

\* the step outputs the caller can see: the entries of the value execute
\* returned, and the values in the context dict the caller passed
VisibleToCaller(i) ==
    \/ /\ returned.kind = "value"
       /\ \E k \in 1..Len(returned.value) : returned.value[k].name = steps[i].name
    \/ /\ caller = "execute"
       /\ \E k \in DOMAIN context : context[k] = i

\* C3 as stated: after a failed run the caller sees the outputs of exactly
\* the steps completed before the failure.
C3_PartialOutputsVisible ==
    pc = "raised" =>
        \A i \in 1..Len(steps) :
            VisibleToCaller(i) <=> status[i] = "completed"

MainOrder ==
    <<"scan", "validate", "parse", "compare", "analyze", "report", "learn">>

C9_RetriesExhaustedBeforeFailure ==
    (pc = "raised" /\ error.kind = "TaskFailed") =>
        attempts >= tasks[steps[error.at].task].retry_attempts

Terminal == {"completed", "failed", "cancelled"}

StatusStep(s, t) ==
    \/ s = t
    \/ s = "pending" /\ t = "running"
    \/ s = "running" /\ t \in Terminal

----------------------------------------------------------------------------
(* Properties of the comparison workflow.                                  *)

\* C5: a run of the comparison workflow either raises, or returns results
\* holding the output of every declared step, the compare step's with its
\* change_summary; it never returns only some of the outputs.
C5_CompleteResultsOrFailure ==
    (caller = "run_comparison_workflow") =>
        /\ (returned.kind = "value") =>
               /\ pc \in {"returned", "done"}
               /\ error = NoError
               /\ \A i \in 1..Len(steps) :
                      /\ steps[i].name \in ResultKeys(returned.value)
                      /\ status[i] = "completed"
               /\ "change_summary" \in DOMAIN ResultGet(returned.value, "compare").d
        /\ (pc = "raised") =>
               /\ error.kind # "none"
               /\ returned.kind = "None"
        /\ (pc = "done") => returned.kind = "value"

C5_Witness ==
    /\ caller = "run_comparison_workflow"
    /\ pc = "done"
    /\ Len(returned.value) = 8
    /\ ResultGet(returned.value, "compare").d.change_summary.files_with_changes = 1

ExtractionError(content) ==
    \/ HasErrorKey(content)
    \/ /\ ~HasErrorKey(content)
       /\ \/ "error" \in DOMAIN content.reference
          \/ "error" \in DOMAIN content.new

\* C6 as stated: in the compare step's output a file whose extracted content
\* (reference or new) has an error key carries no difference records, its
\* entry is an error payload only.
C6_ErrorFilesCarryNoDifferences ==
    ("compare" \in ResultKeys(results)) =>
        LET parsed == ResultGet(results, "parse").d.parsed_content
            differences == ResultGet(results, "compare").d.differences
        IN  \A f \in DOMAIN parsed :
                (ExtractionError(parsed[f]) /\ f \in DOMAIN differences) =>
                    DOMAIN differences[f] = {"error"}

----------------------------------------------------------------------------
(* Properties of the pattern store.                                        *)

\* C7 as stated: a pattern recorded n times has count n, first_seen the time
\* of the first recording and last_seen the time of the latest.
C7_CountIsNumberOfRecordings ==
    \A k \in DOMAIN recorded :
        /\ k \in DOMAIN patterns
        /\ patterns[k].count = Len(recorded[k])
        /\ patterns[k].first_seen = recorded[k][1]
        /\ patterns[k].last_seen = recorded[k][Len(recorded[k])]

\* the states "as of the previous completed mutation or a later one"
RecentStates ==
    {history[i] : i \in {j \in 1..Len(history) : j >= Len(history) - 1}}
        \cup (IF Len(history) <= 1 THEN {EmptyStore} ELSE {})

\* C8 as stated: every mutation ends with the persisted document equal to
\* the in-memory state, and a reload after a crash gives the state of the
\* last completed mutation or of the one before it, never an older or an
\* empty one.
C8_CrashLosesAtMostLastMutation ==
    [][ /\ (store_pc' = "idle"
              /\ (store_pc = "writing" \/ mutations' = mutations + 1)) =>
               /\ disk'.kind = "doc"
               /\ LoadData(disk') = StoreState'
        /\ (store_pc = "down" /\ store_pc' = "idle") =>
               StoreState' \in RecentStates
      ]_vars

----------------------------------------------------------------------------
(* Properties of the compare, analyze and report steps.                    *)

StatusOf(name) == {status[i] : i \in {j \in 1..Len(status) : steps[j].name = name}}

ErrorPayloadOnly(entry) == DOMAIN entry = {"error"}

\* C11: in a run of the comparison workflow the compare step never fails;
\* in its output a file whose comparison raised has an error payload only,
\* every other parsed file has exactly the records of its own comparison
\* (no entry when there are none), and the workflow goes on to analyze.
C11_ComparatorFailureIsPerFile ==
    (caller = "run_comparison_workflow") =>
        /\ error.step # "compare"
        /\ "failed" \notin StatusOf("compare")
        /\ ("compare" \in ResultKeys(results)) =>
               LET parsed == ResultGet(results, "parse").d.parsed_content
                   differences == ResultGet(results, "compare").d.differences
               IN  /\ DOMAIN differences \subseteq DOMAIN parsed
                   /\ \A f \in DOMAIN parsed :
                          \/ /\ f \in DOMAIN differences
                             /\ ErrorPayloadOnly(differences[f])
                          \/ /\ ~HasErrorKey(parsed[f])
                             /\ IF TotalDiffs(FileDifferences(parsed[f])) > 0
                                THEN /\ f \in DOMAIN differences
                                     /\ ~ErrorPayloadOnly(differences[f])
                                     /\ differences[f] = FileDifferences(parsed[f])
                                ELSE f \notin DOMAIN differences
        /\ (pc = "loop" /\ idx = 5) => ENABLED StepInvoke

C11_Witness ==
    /\ caller = "run_comparison_workflow"
    /\ pc = "done"
    /\ LET differences == ResultGet(returned.value, "compare").d.differences
       IN  /\ DOMAIN differences = Files
           /\ ErrorPayloadOnly(differences["f1.pdf"])
           /\ ~ErrorPayloadOnly(differences["f2.pdf"])
           /\ Len(differences["f2.pdf"].text) > 0

\* C12: in a run of the comparison workflow the analyze and report steps
\* never raise, whatever the summarization service and the report writers
\* do: each call returns (a result or its fallback), the workflow never
\* aborts at either step, and the next step (report, then learn) is invoked.
C12_CollaboratorFailureDegrades ==
    (caller = "run_comparison_workflow") =>
        /\ error.step \notin {"analyze", "report"}
        /\ "failed" \notin (StatusOf("analyze") \cup StatusOf("report"))
        /\ (pc = "running" /\ CurrentStep.name \in {"analyze", "report"}) =>
               /\ ENABLED TaskReturn
               /\ ~ENABLED TaskRaise
        /\ (pc = "loop" /\ idx \in {6, 7}) => ENABLED StepInvoke

C12_Witness ==
    /\ caller = "run_comparison_workflow"
    /\ pc = "done"
    /\ "error" \in DOMAIN ResultGet(returned.value, "analyze").d
    /\ DOMAIN ResultGet(returned.value, "report").d = {"error"}
    /\ "learn" \in ResultKeys(returned.value)
    /\ calls = MainOrder

\* C13 as stated: when the summarization service is unreachable, the total
\* number of files and the number of changed files in the fallback summary
\* equal total_files and files_with_changes of the run's change_summary.
C13_FallbackSummaryMatchesCounts ==
    (caller = "run_comparison_workflow" /\ "analyze" \in ResultKeys(results)) =>
        LET analysis == ResultGet(results, "analyze").d
            change_summary == ResultGet(results, "compare").d.change_summary
        IN  ("error" \notin DOMAIN analysis
                /\ analysis.intelligent_summary.source = "fallback") =>
                /\ analysis.intelligent_summary.total_files
                       = change_summary.total_files
                /\ analysis.intelligent_summary.files_with_changes
                       = change_summary.files_with_changes

----------------------------------------------------------------------------
(* compare_content on its own: called with any parsed content of three     *)
(* files.                                                                  *)

CompareFiles == {"f1.pdf", "f2.pdf", "f3.pdf"}

CompareDocs ==
    ParsePdf \cup
    { Extracted(<<Page(1, <<"A", "X">>), Page(2, <<"C">>)>>, <<"img1">>,
                {Font("Arial", 100), Font("Times", 120)}) }

InitCompare ==
    /\ tasks = MainTasks
    /\ steps = MainSteps
    /\ pc = "call"
    /\ idx = 4
    /\ results = <<>>
    /\ context = EmptyDict
    /\ step_context \in
           { [parsed_content |-> parsed,
              sensitivity_config |-> GetSensitivityConfig("medium")]
             : parsed \in [CompareFiles -> [reference : CompareDocs,
                                            new : CompareDocs]] }
    /\ status = <<>>
    /\ calls = <<>>
    /\ attempts = 0
    /\ error = NoError
    /\ returned = None
    /\ caller = "compare_content"
    /\ learning_module = MockLoadData(Missing)
    /\ sessions = EmptyDict
    /\ disk = Missing
    /\ clock = 0
    /\ patterns = EmptyDict
    /\ statistics = EmptyDict
    /\ frequent_changes = EmptyDict
    /\ performance_metrics = EmptyDict
    /\ store_pc = "down"
    /\ mutations = 0
    /\ history = <<>>
    /\ recorded = EmptyDict
    /\ performed = EmptyDict

(* compare_content called with the step context as keyword arguments *)
CallCompareContent ==
    /\ pc = "call"
    /\ \E o \in TaskOutcomes("compare_content", step_context, idx) :
          /\ o.kind = "return"
          /\ results' = ResultSet(results, "compare", o.out)
    /\ pc' = "called"
    /\ UNCHANGED <<tasks, steps, idx, context, step_context, status, calls,
                   attempts, error, returned, caller>>
    /\ UNCHANGED lmVars
    /\ UNCHANGED storeVars

NextCompare == CallCompareContent

SpecCompare == InitCompare /\ [][NextCompare]_vars

\* the records of one entry of `differences`, over all categories
RecordCount(entry) ==
    IF ErrorPayloadOnly(entry) THEN 0 ELSE TotalDiffs(entry)

\* C14: in the output of compare_content, files_with_changes is the number
\* of files with at least one non-empty category list and total_changes is
\* the number of difference records over all categories and files.
C14_ChangeSummaryCounts ==
    ("compare" \in ResultKeys(results)) =>
        LET differences == ResultGet(results, "compare").d.differences
            change_summary == ResultGet(results, "compare").d.change_summary
            with_changes == {f \in DOMAIN differences :
                                FileHasChanges(differences[f])}
        IN  /\ change_summary.files_with_changes = Cardinality(with_changes)
            /\ change_summary.total_changes =
                   SumOver(DOMAIN differences,
                           [f \in DOMAIN differences |->
                               RecordCount(differences[f])])

\* three files, one with 2 text records and 1 font record, the others with
\* none: files_with_changes = 1 and total_changes = 3
C14_Witness ==
    /\ pc = "called"
    /\ caller = "compare_content"
    /\ LET out == ResultGet(results, "compare").d
       IN  /\ out.change_summary.total_files = 3
           /\ \E f \in DOMAIN out.differences :
                  /\ DOMAIN out.differences = {f}
                  /\ ~ErrorPayloadOnly(out.differences[f])
                  /\ Len(out.differences[f].text) = 2
                  /\ Len(out.differences[f].fonts) = 1
                  /\ Len(out.differences[f].images) = 0
           /\ out.change_summary.files_with_changes = 1
           /\ out.change_summary.total_changes = 3

----------------------------------------------------------------------------
(* ComparisonEngine (comparison_engine.py): compare_fonts_detailed and     *)
(* categorize_changes.  Font sizes and tolerances are in tenths of a       *)
(* point.                                                                  *)

\* the sequences that list every element of the finite set S once: the
\* orders in which a Python set can be iterated
SeqsOf(S) == {[i \in 1..Cardinality(S) |-> o[i]] : o \in Orders(S)}

\* {f.get("name", ""): f for f in fonts}: the last font of a name wins
FontDict(fonts) ==
    [n \in {DictGet(fonts[i], "name", "") : i \in 1..Len(fonts)} |->
        fonts[CHOOSE i \in 1..Len(fonts) :
                 /\ DictGet(fonts[i], "name", "") = n
                 /\ \A j \in (i + 1)..Len(fonts) :
                        DictGet(fonts[j], "name", "") # n]]

\* the names of fonts, in the order of first insertion into the dict
RECURSIVE FontNames(_)
FontNames(fonts) ==
    IF fonts = <<>> THEN <<>>
    ELSE LET rest == FontNames(SubSeq(fonts, 1, Len(fonts) - 1))
             n == DictGet(fonts[Len(fonts)], "name", "")
         IN  IF \E k \in 1..Len(rest) : rest[k] = n THEN rest
             ELSE Append(rest, n)

\* the records of one of the three loops over font_dict1.items()
FontLoop(names, Rec(_), Differs(_)) ==
    LET kept == SelectSeq(names, Differs)
    IN  [i \in 1..Len(kept) |-> Rec(kept[i])]

FamilyRecords(order, change) ==
    [i \in 1..Len(order) |->
        [type |-> "font", change |-> change, family |-> order[i],
         severity |-> "medium"]]

\* compare_fonts_detailed: the lists it can return (the family records come
\* in the iteration order of two sets)
CompareFontsDetailed(fonts1, fonts2, config) ==
    LET size_tolerance == DictGet(config, "size_tolerance", 5)
        font_dict1 == FontDict(fonts1)
        font_dict2 == FontDict(fonts2)
        names == FontNames(fonts1)
        families1 == {DictGet(fonts1[i], "family", "") : i \in 1..Len(fonts1)}
        families2 == {DictGet(fonts2[i], "family", "") : i \in 1..Len(fonts2)}
        Common(n) == n \in DOMAIN font_dict2
        SizeDiff(n) == Abs(DictGet(font_dict1[n], "size", 0)
                               - DictGet(font_dict2[n], "size", 0))
        sizes ==
            FontLoop(names,
                LAMBDA n : [type |-> "font", change |-> "size", font_name |-> n,
                            severity |-> IF SizeDiff(n) <= 10 THEN "minor"
                                         ELSE "medium"],
                LAMBDA n : Common(n) /\ SizeDiff(n) > size_tolerance)
        styles ==
            IF DictGet(config, "style_check", TRUE)
            THEN FontLoop(names,
                     LAMBDA n : [type |-> "font", change |-> "style",
                                 font_name |-> n, severity |-> "medium"],
                     LAMBDA n : Common(n)
                                  /\ DictGet(font_dict1[n], "style", "")
                                         # DictGet(font_dict2[n], "style", ""))
            ELSE <<>>
        colors ==
            IF DictGet(config, "color_check", FALSE)
            THEN FontLoop(names,
                     LAMBDA n : [type |-> "font", change |-> "color",
                                 font_name |-> n, severity |-> "minor"],
                     LAMBDA n : Common(n)
                                  /\ DictGet(font_dict1[n], "color", "")
                                         # DictGet(font_dict2[n], "color", ""))
            ELSE <<>>
    IN  IF DictGet(config, "family_check", TRUE)
        THEN { FamilyRecords(added, "added_family")
                   \o FamilyRecords(removed, "removed_family")
                   \o sizes \o styles \o colors
               : added \in SeqsOf(families2 \ families1),
                 removed \in SeqsOf(families1 \ families2) }
        ELSE { sizes \o styles \o colors }

Severities == {"critical", "major", "minor"}

SeverityOf(diff) == DictGet(diff, "severity", "minor")

ChangeTypes == {"text", "image", "font", "layout"}

\* categorize_changes: categories[severity] is a KeyError for a severity
\* that is not one of the three keys
CategorizeChanges(differences) ==
    IF \E i \in 1..Len(differences) : SeverityOf(differences[i]) \notin Severities
    THEN Raise
    ELSE Return(DictOut(
             [by_severity |->
                  [sev \in Severities |->
                      SelectSeq(differences, LAMBDA d : SeverityOf(d) = sev)],
              by_type |->
                  [t \in ChangeTypes |->
                      Len(SelectSeq(differences,
                                    LAMBDA d : DictGet(d, "type", "text") = t))],
              total_changes |-> Len(differences)]))

EngineFont(name, family, size, style, color) ==
    [name |-> name, family |-> family, size |-> size, style |-> style,
     color |-> color]

EngineFontChoices ==
    { EngineFont("Arial", family, size, style, color)
      : family \in {"Arial", "Helvetica"}, size \in {100, 108, 120},
        style \in {"", "bold"}, color \in {0, 1} }

EngineFontLists ==
    {<<>>} \cup {<<f>> : f \in EngineFontChoices}
           \cup {<<EngineFont("Arial", "Arial", 100, "", 0),
                   EngineFont("Times", "Times", 120, "", 0)>>}

EngineConfigs ==
    { [size_tolerance |-> 5, style_check |-> TRUE, color_check |-> FALSE],
      [size_tolerance |-> 10, family_check |-> FALSE, style_check |-> FALSE,
       color_check |-> TRUE] }

InitEngine ==
    /\ tasks = EmptyDict
    /\ steps = <<>>
    /\ pc = "call"
    /\ idx = 0
    /\ results = <<>>
    /\ context = EmptyDict
    /\ step_context \in { [fonts1 |-> fonts1, fonts2 |-> fonts2, config |-> config]
                           : fonts1 \in EngineFontLists,
                             fonts2 \in EngineFontLists,
                             config \in EngineConfigs }
    /\ status = <<>>
    /\ calls = <<>>
    /\ attempts = 0
    /\ error = NoError
    /\ returned = None
    /\ caller = "categorize_changes"
    /\ learning_module = MockLoadData(Missing)
    /\ sessions = EmptyDict
    /\ disk = Missing
    /\ clock = 0
    /\ patterns = EmptyDict
    /\ statistics = EmptyDict
    /\ frequent_changes = EmptyDict
    /\ performance_metrics = EmptyDict
    /\ store_pc = "down"
    /\ mutations = 0
    /\ history = <<>>
    /\ recorded = EmptyDict
    /\ performed = EmptyDict

(* compare_fonts_detailed(fonts1, fonts2, config) *)
CallCompareFontsDetailed ==
    /\ pc = "call"
    /\ \E differences \in CompareFontsDetailed(step_context.fonts1,
                                                step_context.fonts2,
                                                step_context.config) :
          results' = ResultSet(results, "compare_fonts_detailed",
                               DictOut([differences |-> differences]))
    /\ pc' = "compared"
    /\ UNCHANGED <<tasks, steps, idx, context, step_context, status, calls,
                   attempts, error, returned, caller>>
    /\ UNCHANGED lmVars
    /\ UNCHANGED storeVars

(* categorize_changes(differences) on the records just produced *)
CallCategorizeChanges ==
    /\ pc = "compared"
    /\ LET o == CategorizeChanges(
                    ResultGet(results, "compare_fonts_detailed").d.differences)
       IN  IF o.kind = "return"
           THEN /\ results' = ResultSet(results, "categorize_changes", o.out)
                /\ pc' = "called"
                /\ error' = error
           ELSE /\ results' = results
                /\ pc' = "raised"
                /\ error' = [kind |-> "KeyError", step |-> "categorize_changes",
                             at |-> 0]
    /\ UNCHANGED <<tasks, steps, idx, context, step_context, status, calls,
                   attempts, returned, caller>>
    /\ UNCHANGED lmVars
    /\ UNCHANGED storeVars

NextEngine ==
    \/ CallCompareFontsDetailed
    \/ CallCategorizeChanges

SpecEngine == InitEngine /\ [][NextEngine]_vars

\* C15 as stated: bucketing the records a comparator produced never fails,
\* every record lands in the bucket named by its severity field, and the
\* three bucket sizes sum to the number of records.
C15_EveryRecordInOneBucket ==
    (caller = "categorize_changes") =>
        /\ pc # "raised"
        /\ (pc = "called") =>
               LET differences ==
                       ResultGet(results, "compare_fonts_detailed").d.differences
                   by_severity ==
                       ResultGet(results, "categorize_changes").d.by_severity
               IN  /\ DOMAIN by_severity = Severities
                   /\ SumOver(Severities,
                              [sev \in Severities |-> Len(by_severity[sev])])
                          = Len(differences)
                   /\ \A sev \in Severities :
                          \A k \in 1..Len(by_severity[sev]) :
                              SeverityOf(by_severity[sev][k]) = sev

----------------------------------------------------------------------------
(* The pattern store under a long run of update_patterns calls with        *)
(* results of one signature.                                               *)

MaxRecordings == 12

\* results of two files with the same types and severities
ExampleData ==
    { [filename |-> f,
       differences |-> << [type |-> "text", severity |-> "minor",
                           operation |-> "replace"] >>]
      : f \in {"f1.pdf", "f2.pdf"} }

(* update_patterns *)
RecordOccurrence ==
    /\ store_pc = "idle"
    /\ mutations < MaxRecordings
    /\ UpdatePatternsWith(ExampleData)

NextExamples ==
    \/ Construct
    \/ RecordOccurrence
    \/ WriteDone

SpecExamples == Init /\ [][NextExamples]_vars

\* the last n elements of seq
LastN(seq, n) ==
    IF Len(seq) <= n THEN seq ELSE SubSeq(seq, Len(seq) - n + 1, Len(seq))

\* C16: a pattern never holds more than 10 examples, and a call that
\* records a result leaves the pattern with the 10 most recent of its
\* former examples followed by the new one: past 10 the oldest example, and
\* only that one, is evicted.
C16_ExamplesAreTheLastTen ==
    [][ /\ \A k \in DOMAIN patterns' : Len(patterns'[k].examples) <= 10
        /\ (mutations' = mutations + 1) =>
               \A k \in DOMAIN patterns' :
                   LET before == IF k \in DOMAIN patterns
                                 THEN patterns[k].examples ELSE <<>>
                       after == patterns'[k].examples
                   IN  IF DictGet(recorded', k, <<>>) = DictGet(recorded, k, <<>>)
                       THEN after = before
                       ELSE \E comparison_data \in ExampleData :
                                after = LastN(Append(before,
                                                     [timestamp |-> clock,
                                                      data |-> comparison_data]),
                                              10)
      ]_vars

C16_Witness ==
    /\ mutations = 12
    /\ \E k \in DOMAIN patterns :
          /\ patterns[k].count = 11
          /\ Len(patterns[k].examples) = 10
          /\ patterns[k].examples[1].data.filename = "f1.pdf"
          /\ patterns[k].examples[10].data.filename = "f2.pdf"

----------------------------------------------------------------------------
(* The pattern store under recordings and retention trims.                 *)

NextTrim ==
    \/ Construct
    \/ UpdatePatterns
    \/ UpdateStatistics
    \/ ClearOldData
    \/ WriteDone
    \/ Tick

SpecTrim == Init /\ [][NextTrim]_vars

Timestamps(seq) == {seq[i].timestamp : i \in 1..Len(seq)}

\* C17: a retention trim with cutoff c leaves no statistics entry older
\* than c and keeps every entry newer than c, in order; it removes a pattern
\* if and only if the pattern has no example newer than c and its last_seen
\* is older than c, and a pattern it keeps keeps its examples newer than c.
C17_TrimRemovesOldDataOnly ==
    [][ ClearOldData =>
          \E c \in {clock, clock - 1} :
              /\ \A m \in DOMAIN statistics' :
                     \A t \in Timestamps(statistics'[m]) : ~(t < c)
              /\ \A m \in DOMAIN statistics :
                     LET newer == SelectSeq(statistics[m],
                                            LAMBDA v : v.timestamp > c)
                     IN  newer # <<>> =>
                             /\ m \in DOMAIN statistics'
                             /\ statistics'[m] = newer
              /\ DOMAIN patterns' \subseteq DOMAIN patterns
              /\ \A k \in DOMAIN patterns :
                     LET no_newer_example ==
                             \A t \in Timestamps(patterns[k].examples) : ~(t > c)
                     IN  /\ (k \notin DOMAIN patterns') <=>
                                (no_newer_example /\ patterns[k].last_seen < c)
                         /\ (k \in DOMAIN patterns') =>
                                /\ patterns'[k].examples =
                                       SelectSeq(patterns[k].examples,
                                                 LAMBDA ex : ex.timestamp > c)
                                /\ patterns'[k].last_seen = patterns[k].last_seen
                                /\ patterns'[k].count = patterns[k].count
      ]_vars

\* after trims: one pattern is kept without examples, another one is gone
C17_Witness ==
    /\ store_pc = "idle"
    /\ \E k \in DOMAIN patterns : patterns[k].examples = <<>>
    /\ \E k \in DOMAIN recorded : k \notin DOMAIN patterns

----------------------------------------------------------------------------
(* Properties of the learning module of a pipeline run.                    *)

DocumentFields ==
    {"patterns", "statistics", "frequent_changes", "performance_metrics",
     "last_updated"}

\* C18 as stated: a document saved by the learning module of a pipeline run
\* has the fields patterns, statistics, frequent_changes,
\* performance_metrics and last_updated.
C18_SavedDocumentHasAllFields ==
    (caller = "run_comparison_workflow" /\ disk.kind = "doc") =>
        DocumentFields \subseteq DOMAIN disk.doc

----------------------------------------------------------------------------
(* The pattern store under performance recordings mixed with the other     *)
(* operations.                                                             *)

NextPerformance ==
    \/ Construct
    \/ UpdatePerformanceMetrics
    \/ UpdatePatterns
    \/ UpdateStatistics
    \/ ClearOldData
    \/ WriteDone
    \/ Tick

SpecPerformance == Init /\ [][NextPerformance]_vars

RECURSIVE SumDurations(_)
SumDurations(recordings) ==
    IF recordings = <<>> THEN 0
    ELSE Head(recordings).duration + SumDurations(Tail(recordings))

Durations(recordings) == {recordings[i].duration : i \in 1..Len(recordings)}

\* C19: whatever other operations ran in between, the metrics of an
\* operation are those of its update_performance_metrics calls: total,
\* successful and failed counts, the sum of the durations, their quotient as
\* the average, and the smallest and largest duration; and merging an
\* imported document decreases none of the accumulated values.
C19_MetricsAreRunningAggregates ==
    /\ \A op \in DOMAIN performed :
           /\ op \in DOMAIN performance_metrics
           /\ LET recordings == performed[op]
                  metrics == performance_metrics[op]
              IN  /\ metrics.total_operations = Len(recordings)
                  /\ metrics.total_operations =
                         metrics.successful_operations + metrics.failed_operations
                  /\ metrics.successful_operations =
                         Len(SelectSeq(recordings, LAMBDA r : r.success))
                  /\ metrics.total_duration = SumDurations(recordings)
                  /\ metrics.avg_duration =
                         <<SumDurations(recordings), Len(recordings)>>
                  /\ metrics.min_duration \in Durations(recordings)
                  /\ \A d \in Durations(recordings) :
                         metrics.min_duration <= d /\ d <= metrics.max_duration
                  /\ metrics.max_duration \in Durations(recordings)
    /\ \A import_data \in ImportDocuments :
           LET merged == MergePerformanceMetrics(performance_metrics,
                             DictGet(import_data, "performance_metrics", EmptyDict))
           IN  \A op \in DOMAIN performance_metrics :
                   /\ op \in DOMAIN merged
                   /\ merged[op].total_operations
                          >= performance_metrics[op].total_operations
                   /\ merged[op].successful_operations
                          >= performance_metrics[op].successful_operations
                   /\ merged[op].failed_operations
                          >= performance_metrics[op].failed_operations
                   /\ merged[op].total_duration
                          >= performance_metrics[op].total_duration
                   /\ merged[op].max_duration
                          >= performance_metrics[op].max_duration
                   /\ merged[op].min_duration
                          <= performance_metrics[op].min_duration

C19_Witness ==
    /\ store_pc = "idle"
    /\ "compare" \in DOMAIN performed
    /\ Len(performed["compare"]) = 2
    /\ "total_changes" \in DOMAIN statistics
    /\ performance_metrics["compare"].min_duration = 1
    /\ performance_metrics["compare"].max_duration = 3
    /\ performance_metrics["compare"].failed_operations = 1

----------------------------------------------------------------------------
(* The pattern store recording one result, and the same records again in   *)
(* another order or with repetitions.                                      *)

MaxRecords == 2
MaxResults == 2

\* the records of one result: two ordinary ones, one without a severity
\* and an entry that is not a dict
KeyRecords ==
    { [type |-> "text", severity |-> "minor", operation |-> "replace"],
      [type |-> "font", severity |-> "major", operation |-> "size"],
      [type |-> "image"],
      [nondict |-> TRUE] }

KeyInputs ==
    { [filename |-> "f1.pdf", differences |-> differences]
      : differences \in UNION {[1..n -> KeyRecords] : n \in 0..MaxRecords} }

InitKey ==
    /\ tasks = EmptyDict
    /\ steps = <<>>
    /\ pc = "call"
    /\ idx = 0
    /\ results = <<>>
    /\ context = EmptyDict
    /\ step_context \in KeyInputs
    /\ status = <<>>
    /\ calls = <<>>
    /\ attempts = 0
    /\ error = NoError
    /\ returned = None
    /\ caller = "update_patterns"
    /\ learning_module = MockLoadData(Missing)
    /\ sessions = EmptyDict
    /\ disk = Missing
    /\ clock = 0
    /\ patterns = EmptyDict
    /\ statistics = EmptyDict
    /\ frequent_changes = EmptyDict
    /\ performance_metrics = EmptyDict
    /\ store_pc = "down"
    /\ mutations = 0
    /\ history = <<>>
    /\ recorded = EmptyDict
    /\ performed = EmptyDict

\* comparison data with the records of data, in any order and any number
\* of times
SameRecords(data) ==
    { other \in KeyInputs :
          {other.differences[i] : i \in 1..Len(other.differences)}
              = {data.differences[i] : i \in 1..Len(data.differences)} }

(* update_patterns, given the records of the result *)
RecordResult ==
    /\ store_pc = "idle"
    /\ mutations < MaxResults
    /\ UpdatePatternsWith(SameRecords(step_context))

NextKey ==
    \/ Construct
    \/ RecordResult
    \/ WriteDone

SpecKey == InitKey /\ [][NextKey]_vars

\* C20: results with the same records, in whatever order and however often
\* repeated, have the same pattern key, and every recording of such a result
\* goes to the one pattern of that key.
C20_KeyDependsOnRecordSetOnly ==
    /\ \A other \in SameRecords(step_context) :
           ExtractPatternKey(other) = ExtractPatternKey(step_context)
    /\ DOMAIN patterns \subseteq {ExtractPatternKey(step_context)}
    /\ DOMAIN recorded = DOMAIN patterns
    /\ \A k \in DOMAIN patterns :
           /\ Len(recorded[k]) = mutations
           /\ patterns[k].count = mutations - 1

C20_Witness ==
    /\ step_context.differences =
           << [type |-> "text", severity |-> "minor", operation |-> "replace"],
              [type |-> "font", severity |-> "major", operation |-> "size"] >>
    /\ mutations = 2
    /\ DOMAIN patterns = {<<"font", "text", "major", "minor">>}
    /\ \E k \in DOMAIN patterns :
           /\ Len(patterns[k].examples) = 2
           /\ patterns[k].examples[1].data.differences
                  # patterns[k].examples[2].data.differences

----------------------------------------------------------------------------
(* The comparators of src/processors and the layout comparison of          *)
(* ComparisonEngine, each called on its own with a pair of inputs and the  *)
(* section of a sensitivity preset it is given.  Font sizes are in tenths  *)
(* of a point; flags, styles and colors are strings; an absent key of a    *)
(* Python dict is an absent field.                                         *)

RECURSIVE Flatten(_)
Flatten(seqs) ==
    IF seqs = <<>> THEN <<>> ELSE Head(seqs) \o Flatten(Tail(seqs))

\* a variant of the records for one name that reports a size difference
\* equal to the tolerance too
FontAnalyzerRecordsAtTolerance(name, font_dict1, font_dict2, size_tolerance) ==
    IF name \notin DOMAIN font_dict1
    THEN << [type |-> "font", change |-> "added", font_name |-> name,
             severity |-> "minor"] >>
    ELSE IF name \notin DOMAIN font_dict2
    THEN << [type |-> "font", change |-> "removed", font_name |-> name,
             severity |-> "minor"] >>
    ELSE LET f1 == font_dict1[name]
             f2 == font_dict2[name]
         IN  (IF Abs(f1.size - f2.size) >= size_tolerance
              THEN << [type |-> "font", change |-> "size", font_name |-> name,
                       reference_size |-> f1.size, new_size |-> f2.size,
                       severity |-> "minor"] >>
              ELSE <<>>)
             \o (IF DictGet(f1, "flags", "None") # DictGet(f2, "flags", "None")
                 THEN << [type |-> "font", change |-> "style", font_name |-> name,
                          reference_flags |-> DictGet(f1, "flags", "None"),
                          new_flags |-> DictGet(f2, "flags", "None"),
                          severity |-> "minor"] >>
                 ELSE <<>>)
             \o (IF DictGet(f1, "color", "None") # DictGet(f2, "color", "None")
                 THEN << [type |-> "font", change |-> "color", font_name |-> name,
                          reference_color |-> DictGet(f1, "color", "None"),
                          new_color |-> DictGet(f2, "color", "None"),
                          severity |-> "minor"] >>
                 ELSE <<>>)

\* FontAnalyzer.compare: the records for one name of the union of the keys
FontAnalyzerRecords(name, font_dict1, font_dict2, size_tolerance) ==
    IF name \notin DOMAIN font_dict1
    THEN << [type |-> "font", change |-> "added", font_name |-> name,
             severity |-> "minor"] >>
    ELSE IF name \notin DOMAIN font_dict2
    THEN << [type |-> "font", change |-> "removed", font_name |-> name,
             severity |-> "minor"] >>
    ELSE LET f1 == font_dict1[name]
             f2 == font_dict2[name]
         IN  (IF Abs(f1.size - f2.size) > size_tolerance
              THEN << [type |-> "font", change |-> "size", font_name |-> name,
                       reference_size |-> f1.size, new_size |-> f2.size,
                       severity |-> "minor"] >>
              ELSE <<>>)
             \o (IF DictGet(f1, "flags", "None") # DictGet(f2, "flags", "None")
                 THEN << [type |-> "font", change |-> "style", font_name |-> name,
                          reference_flags |-> DictGet(f1, "flags", "None"),
                          new_flags |-> DictGet(f2, "flags", "None"),
                          severity |-> "minor"] >>
                 ELSE <<>>)
             \o (IF DictGet(f1, "color", "None") # DictGet(f2, "color", "None")
                 THEN << [type |-> "font", change |-> "color", font_name |-> name,
                          reference_color |-> DictGet(f1, "color", "None"),
                          new_color |-> DictGet(f2, "color", "None"),
                          severity |-> "minor"] >>
                 ELSE <<>>)

\* FontAnalyzer.compare: f["name"] and f1["size"] are KeyErrors for a font
\* without the key; the names come in the iteration order of a set
FontAnalyzerCompare(fonts1, fonts2, config) ==
    LET size_tolerance == DictGet(config, "size_tolerance", 5)
        Named(fonts) == \A i \in 1..Len(fonts) : "name" \in DOMAIN fonts[i]
    IN  IF ~(Named(fonts1) /\ Named(fonts2)) THEN {Raise}
        ELSE LET font_dict1 == FontDict(fonts1)
                 font_dict2 == FontDict(fonts2)
                 names == (DOMAIN font_dict1) \cup (DOMAIN font_dict2)
                 common == (DOMAIN font_dict1) \cap (DOMAIN font_dict2)
             IN  IF \E n \in common : \/ "size" \notin DOMAIN font_dict1[n]
                                       \/ "size" \notin DOMAIN font_dict2[n]
                 THEN {Raise}
                 ELSE { Return(DictOut([differences |->
                            Flatten([i \in 1..Len(order) |->
                                FontAnalyzerRecords(order[i], font_dict1,
                                                    font_dict2, size_tolerance)])]))
                        : order \in SeqsOf(names) }

\* hashlib: hash_func(data).hexdigest(); payloads that differ have digests
\* that differ
HexDigest(hash_func, data) == [hash_func |-> hash_func, of |-> data]

\* a variant of ImageComparator.compare that reports the two counts
\* whether or not they differ
ImageComparatorAlwaysCounts(images1, images2, config) ==
    LET hash_func == IF DictGet(config, "hash_algorithm", "sha256") = "sha256"
                     THEN "sha256" ELSE "md5"
        Truthy(img) == DOMAIN img # {}
        HashOf(img) == IF Truthy(img) THEN Value(HexDigest(hash_func, img.data))
                       ELSE None
        SizeOf(img) == IF Truthy(img) THEN Len(img.data) ELSE 0
        zipped == IF Len(images1) < Len(images2) THEN Len(images1)
                  ELSE Len(images2)
        pairs == [i \in 1..zipped |->
                     IF HashOf(images1[i]) = HashOf(images2[i]) THEN <<>>
                     ELSE << [index |-> i - 1,
                              reference_hash |-> HashOf(images1[i]),
                              new_hash |-> HashOf(images2[i]),
                              identical |-> FALSE,
                              reference_size |-> SizeOf(images1[i]),
                              new_size |-> SizeOf(images2[i])] >>]
        count == << [type |-> "image_count_mismatch",
                     reference_count |-> Len(images1),
                     new_count |-> Len(images2)] >>
    IN  { Return(DictOut([differences |-> Flatten(pairs) \o count])) }

\* a variant of ImageComparator.compare that walks the reference list and
\* takes a missing new image as an empty one, instead of zip()
ImageComparatorOverReference(images1, images2, config) ==
    LET hash_func == IF DictGet(config, "hash_algorithm", "sha256") = "sha256"
                     THEN "sha256" ELSE "md5"
        Truthy(img) == DOMAIN img # {}
        HashOf(img) == IF Truthy(img) THEN Value(HexDigest(hash_func, img.data))
                       ELSE None
        SizeOf(img) == IF Truthy(img) THEN Len(img.data) ELSE 0
        New(i) == IF i <= Len(images2) THEN images2[i] ELSE EmptyDict
        pairs == [i \in 1..Len(images1) |->
                     IF HashOf(images1[i]) = HashOf(New(i)) THEN <<>>
                     ELSE << [index |-> i - 1,
                              reference_hash |-> HashOf(images1[i]),
                              new_hash |-> HashOf(New(i)),
                              identical |-> FALSE,
                              reference_size |-> SizeOf(images1[i]),
                              new_size |-> SizeOf(New(i))] >>]
        count == IF Len(images1) # Len(images2)
                 THEN << [type |-> "image_count_mismatch",
                          reference_count |-> Len(images1),
                          new_count |-> Len(images2)] >>
                 ELSE <<>>
    IN  { Return(DictOut([differences |-> Flatten(pairs) \o count])) }

\* ImageComparator.compare; an image is a dict with the payload under
\* "data", a payload a sequence of bytes, and an empty dict is falsy
ImageComparatorCompare(images1, images2, config) ==
    LET hash_func == IF DictGet(config, "hash_algorithm", "sha256") = "sha256"
                     THEN "sha256" ELSE "md5"
        Truthy(img) == DOMAIN img # {}
        HashOf(img) == IF Truthy(img) THEN Value(HexDigest(hash_func, img.data))
                       ELSE None
        SizeOf(img) == IF Truthy(img) THEN Len(img.data) ELSE 0
        zipped == IF Len(images1) < Len(images2) THEN Len(images1)
                  ELSE Len(images2)
        pairs == [i \in 1..zipped |->
                     IF HashOf(images1[i]) = HashOf(images2[i]) THEN <<>>
                     ELSE << [index |-> i - 1,
                              reference_hash |-> HashOf(images1[i]),
                              new_hash |-> HashOf(images2[i]),
                              identical |-> FALSE,
                              reference_size |-> SizeOf(images1[i]),
                              new_size |-> SizeOf(images2[i])] >>]
        count == IF Len(images1) # Len(images2)
                 THEN << [type |-> "image_count_mismatch",
                          reference_count |-> Len(images1),
                          new_count |-> Len(images2)] >>
                 ELSE <<>>
    IN  { Return(DictOut([differences |-> Flatten(pairs) \o count])) }

\* compare_layout_elements
CompareLayoutElements(layout1, layout2, config) ==
    LET position_tolerance == DictGet(config, "position_tolerance", 5)
        size_tolerance == DictGet(config, "size_tolerance", 5)
        page1 == DictGet(layout1, "page_size", EmptyDict)
        page2 == DictGet(layout2, "page_size", EmptyDict)
        Dimension(d) ==
            IF /\ "page_size" \in DOMAIN layout1
               /\ "page_size" \in DOMAIN layout2
               /\ Abs(DictGet(page1, d, 0) - DictGet(page2, d, 0)) > size_tolerance
            THEN << [type |-> "layout", change |-> <<"page", d>>,
                     reference |-> DictGet(page1, d, 0),
                     new |-> DictGet(page2, d, 0), severity |-> "major"] >>
            ELSE <<>>
        margins1 == DictGet(layout1, "margins", EmptyDict)
        margins2 == DictGet(layout2, "margins", EmptyDict)
        Differs(margin_type) ==
            Abs(DictGet(margins1, margin_type, 0)
                    - DictGet(margins2, margin_type, 0)) > position_tolerance
        changed == SelectSeq(<<"top", "bottom", "left", "right">>, Differs)
        margins ==
            IF DictGet(config, "margin_check", FALSE)
            THEN [i \in 1..Len(changed) |->
                     [type |-> "layout", change |-> <<"margin", changed[i]>>,
                      reference |-> DictGet(margins1, changed[i], 0),
                      new |-> DictGet(margins2, changed[i], 0),
                      severity |-> "minor"]]
            ELSE <<>>
    IN  { Return(DictOut([differences |->
              Dimension("width") \o Dimension("height") \o margins])) }

MaxLines == 3
MaxImages == 2

ComparatorNames ==
    {"text_comparator", "font_analyzer", "image_comparator",
     "compare_fonts_detailed", "compare_layout_elements"}

\* the lines of a page: every list of up to MaxLines lines, and the pages
\* "A\nB\nC" and "A\nX\nC"
LineLists ==
    UNION {[1..n -> {"A", "B", "X"}] : n \in 0..MaxLines}
        \cup {<<"A", "B", "C">>, <<"A", "X", "C">>}

TextInputs ==
    { <<Page(1, lines)>> : lines \in LineLists }
        \cup { <<>>, <<Page(1, <<"A">>), Page(2, <<"B">>)>> }

CmpFont(name, size, flags, color) ==
    [name |-> name, size |-> size, flags |-> flags, color |-> color,
     style |-> IF flags = "0" THEN "" ELSE "bold", family |-> name]

\* fonts as PDFParser.parse_pdf lists them, with the style and family keys
\* compare_fonts_detailed reads, and fonts that lack optional keys
FontInputs ==
    {<<>>}
        \cup { <<CmpFont("Arial", size, "0", "0")>> : size \in {100, 104, 110, 125} }
        \cup { <<CmpFont("Arial", 100, "16", "0")>>,
               <<CmpFont("Arial", 100, "0", "255")>>,
               <<[name |-> "Arial", flags |-> "0", color |-> "0"]>>,
               <<[name |-> "Arial", size |-> 100]>>,
               <<CmpFont("Arial", 100, "0", "0"), CmpFont("Times", 120, "0", "0")>>,
               <<CmpFont("Arial", 100, "0", "0"), CmpFont("Arial", 104, "16", "0")>> }

ImageInputs ==
    UNION {[1..n -> {[data |-> <<1>>], [data |-> <<2>>], [data |-> <<1, 2>>],
                     EmptyDict}] : n \in 0..MaxImages}

LayoutInputs ==
    { EmptyDict,
      [page_size |-> [width |-> 612, height |-> 792]],
      [page_size |-> [width |-> 595, height |-> 842]],
      [page_size |-> [width |-> 612]],
      [page_size |-> [width |-> 612, height |-> 792],
       margins |-> [top |-> 72, left |-> 72]],
      [page_size |-> [width |-> 612, height |-> 792],
       margins |-> [top |-> 80, bottom |-> 72, left |-> 72, right |-> 72]] }

\* the section of the preset a comparator is given
ConfigSection(comparator) ==
    CASE comparator = "text_comparator" -> "text"
      [] comparator \in {"font_analyzer", "compare_fonts_detailed"} -> "font"
      [] comparator = "image_comparator" -> "image"
      [] comparator = "compare_layout_elements" -> "layout"

ComparatorInputs(comparator) ==
    LET inputs == CASE comparator = "text_comparator" -> TextInputs
                    [] comparator \in {"font_analyzer", "compare_fonts_detailed"}
                           -> FontInputs
                    [] comparator = "image_comparator" -> ImageInputs
                    [] comparator = "compare_layout_elements" -> LayoutInputs
    IN  { [reference |-> reference, new |-> new, level |-> level,
           config |-> GetSensitivityConfig(level)[ConfigSection(comparator)]]
          : reference \in inputs, new \in inputs,
            level \in DOMAIN SensitivityLevels }

InitComparators ==
    /\ caller \in ComparatorNames
    /\ step_context \in ComparatorInputs(caller)
    /\ tasks = EmptyDict
    /\ steps = <<>>
    /\ pc = "call"
    /\ idx = 0
    /\ results = <<>>
    /\ context = EmptyDict
    /\ status = <<>>
    /\ calls = <<>>
    /\ attempts = 0
    /\ error = NoError
    /\ returned = None
    /\ learning_module = MockLoadData(Missing)
    /\ sessions = EmptyDict
    /\ disk = Missing
    /\ clock = 0
    /\ patterns = EmptyDict
    /\ statistics = EmptyDict
    /\ frequent_changes = EmptyDict
    /\ performance_metrics = EmptyDict
    /\ store_pc = "down"
    /\ mutations = 0
    /\ history = <<>>
    /\ recorded = EmptyDict
    /\ performed = EmptyDict

\* the call of a comparator returns its list, or raises
ComparatorCall(comparator, outcomes) ==
    /\ pc = "call"
    /\ \E o \in outcomes :
          IF o.kind = "return"
          THEN /\ results' = ResultSet(results, comparator, o.out)
               /\ pc' = "called"
               /\ error' = error
          ELSE /\ results' = results
               /\ pc' = "raised"
               /\ error' = [kind |-> "KeyError", step |-> comparator, at |-> 0]
    /\ UNCHANGED <<tasks, steps, idx, context, step_context, status, calls,
                   attempts, returned, caller>>
    /\ UNCHANGED lmVars
    /\ UNCHANGED storeVars

(* TextComparator.compare(doc1_pages, doc2_pages, config) *)
CallTextComparator ==
    /\ caller = "text_comparator"
    /\ ComparatorCall("text_comparator",
            { Return(DictOut([differences |->
                  TextCompare(step_context.reference, step_context.new)])) })

(* FontAnalyzer.compare(fonts1, fonts2, config) *)
CallFontAnalyzer ==
    /\ caller = "font_analyzer"
    /\ ComparatorCall("font_analyzer",
            FontAnalyzerCompare(step_context.reference, step_context.new,
                                step_context.config))

(* ImageComparator.compare(images1, images2, config) *)
CallImageComparator ==
    /\ caller = "image_comparator"
    /\ ComparatorCall("image_comparator",
            ImageComparatorCompare(step_context.reference, step_context.new,
                                   step_context.config))

(* ComparisonEngine.compare_fonts_detailed(fonts1, fonts2, config) *)
CallFontsDetailed ==
    /\ caller = "compare_fonts_detailed"
    /\ ComparatorCall("compare_fonts_detailed",
            { Return(DictOut([differences |-> differences]))
              : differences \in CompareFontsDetailed(step_context.reference,
                                    step_context.new, step_context.config) })

(* ComparisonEngine.compare_layout_elements(layout1, layout2, config) *)
CallCompareLayoutElements ==
    /\ caller = "compare_layout_elements"
    /\ ComparatorCall("compare_layout_elements",
            CompareLayoutElements(step_context.reference, step_context.new,
                                  step_context.config))

NextComparators ==
    \/ CallTextComparator
    \/ CallFontAnalyzer
    \/ CallImageComparator
    \/ CallFontsDetailed
    \/ CallCompareLayoutElements

SpecComparators == InitComparators /\ [][NextComparators]_vars

\* the list the comparator returned
Reported == ResultGet(results, caller).d.differences

\* the input is one PDFParser.parse_pdf can produce: every font has its
\* name, size, flags and color, every image its payload
Parsed(input) ==
    CASE caller \in {"font_analyzer", "compare_fonts_detailed"} ->
             \A i \in 1..Len(input) :
                 {"name", "size", "flags", "color"} \subseteq DOMAIN input[i]
      [] caller = "image_comparator" ->
             \A i \in 1..Len(input) : "data" \in DOMAIN input[i]
      [] OTHER -> TRUE

\* C21: a comparator given the same extracted content as reference and as
\* new, under any preset, returns an empty list (and does not raise).
C21_SelfComparisonIsEmpty ==
    (/\ caller \in ComparatorNames
     /\ pc # "call"
     /\ step_context.reference = step_context.new
     /\ Parsed(step_context.reference))
        => (pc = "called" /\ Reported = <<>>)

C21_Witness ==
    /\ caller = "font_analyzer"
    /\ pc = "called"
    /\ step_context.level = "high"
    /\ step_context.reference =
           <<CmpFont("Arial", 100, "0", "0"), CmpFont("Arial", 104, "16", "0")>>
    /\ step_context.new = step_context.reference
    /\ Reported = <<>>

\* the records of an image comparison that name an index, and the one that
\* names the counts
IndexRecords(differences) ==
    SelectSeq(differences, LAMBDA r : "index" \in DOMAIN r)
CountRecords(differences) ==
    SelectSeq(differences, LAMBDA r : "reference_count" \in DOMAIN r)

\* C22: the image comparison of (new, reference) names the indexes that the
\* comparison of (reference, new) names, with the two hashes exchanged, and
\* has a count record exactly when the other has one, with the two counts
\* exchanged; the counts of such a record are the lengths of the lists.
C22_ImageComparisonIsSymmetric ==
    (caller = "image_comparator" /\ pc = "called") =>
        \A swapped \in ImageComparatorCompare(step_context.new,
                            step_context.reference, step_context.config) :
            LET forth == Reported
                back == swapped.out.d.differences
            IN  /\ Len(IndexRecords(forth)) = Len(IndexRecords(back))
                /\ \A k \in 1..Len(IndexRecords(forth)) :
                       LET f == IndexRecords(forth)[k]
                           b == IndexRecords(back)[k]
                       IN  /\ f.index = b.index
                           /\ f.reference_hash = b.new_hash
                           /\ f.new_hash = b.reference_hash
                           /\ f.reference_hash # f.new_hash
                /\ Len(CountRecords(forth)) = Len(CountRecords(back))
                /\ Len(CountRecords(forth)) =
                       IF Len(step_context.reference) # Len(step_context.new)
                       THEN 1 ELSE 0
                /\ \A k \in 1..Len(CountRecords(forth)) :
                       LET f == CountRecords(forth)[k]
                           b == CountRecords(back)[k]
                       IN  /\ f.reference_count = b.new_count
                           /\ f.new_count = b.reference_count
                           /\ f.reference_count = Len(step_context.reference)
                           /\ f.new_count = Len(step_context.new)
                           /\ Abs(f.reference_count - f.new_count)
                                  = Abs(b.reference_count - b.new_count)

C22_Witness ==
    /\ caller = "image_comparator"
    /\ pc = "called"
    /\ step_context.reference = <<[data |-> <<1>>], [data |-> <<2>>]>>
    /\ step_context.new = <<[data |-> <<1, 2>>]>>
    /\ Len(IndexRecords(Reported)) = 1
    /\ Len(CountRecords(Reported)) = 1
    /\ CountRecords(Reported)[1].reference_count = 2
    /\ CountRecords(Reported)[1].new_count = 1

\* C23 as stated: for a page present in both documents, every line of a
\* replaced block has its old-to-new record, every deleted and every
\* inserted line has its record, and there are no other records.
C23_OneRecordPerChangedLine ==
    (/\ caller = "text_comparator"
     /\ pc = "called"
     /\ Len(step_context.reference) = 1
     /\ Len(step_context.new) = 1) =>
        LET ref_lines == step_context.reference[1].text
            new_lines == step_context.new[1].text
            ops == GetOpcodes(ref_lines, new_lines)
            Has(kind, line) ==
                Cardinality({k \in 1..Len(Reported) :
                                /\ Reported[k].kind = kind
                                /\ Reported[k].line = line}) = 1
            Lines(op) ==
                IF op[1] = "replace"
                THEN {<<"changed", op[2] + n>> :
                         n \in 1..Min(op[3] - op[2], op[5] - op[4])}
                ELSE IF op[1] = "delete"
                THEN {<<"removed", op[2] + n>> : n \in 1..(op[3] - op[2])}
                ELSE {<<"added", op[4] + n>> : n \in 1..(op[5] - op[4])}
            expected == UNION {Lines(ops[k]) : k \in 1..Len(ops)}
        IN  /\ \A e \in expected : Has(e[1], e[2])
            /\ Len(Reported) = Cardinality(expected)

\* the records of the given change about the font name
FontRecords(change, name) ==
    SelectSeq(Reported, LAMBDA r : /\ r.change = change
                                   /\ "font_name" \in DOMAIN r
                                   /\ r.font_name = name)

\* the font names present in reference and new, with a size on both sides
SizedOnBothSides ==
    {n \in (DOMAIN FontDict(step_context.reference))
              \cap (DOMAIN FontDict(step_context.new)) :
        /\ "size" \in DOMAIN FontDict(step_context.reference)[n]
        /\ "size" \in DOMAIN FontDict(step_context.new)[n]}

\* C24: both font comparators report one size record for a font name
\* present on both sides when the two sizes differ by more than the
\* preset's size_tolerance, and none otherwise.
C24_SizeRecordIffBeyondTolerance ==
    (caller \in {"font_analyzer", "compare_fonts_detailed"} /\ pc = "called") =>
        \A n \in SizedOnBothSides :
            LET reference_size == FontDict(step_context.reference)[n].size
                new_size == FontDict(step_context.new)[n].size
            IN  Len(FontRecords("size", n)) =
                    IF Abs(reference_size - new_size)
                           > step_context.config.size_tolerance
                    THEN 1 ELSE 0

C24_Witness ==
    /\ caller = "font_analyzer"
    /\ pc = "called"
    /\ step_context.level = "high"
    /\ step_context.reference = <<CmpFont("Arial", 100, "0", "0")>>
    /\ step_context.new = <<CmpFont("Arial", 104, "0", "0")>>
    /\ Len(FontRecords("size", "Arial")) = 1
    /\ Len(Reported) = 1

\* C25 as stated: a font comparator reports a style record only under a
\* preset with style_check, a color record only under one with color_check,
\* and at most one record per font name for each of size, style and color.
C25_StyleAndColorAreGated ==
    (caller \in {"font_analyzer", "compare_fonts_detailed"} /\ pc = "called") =>
        \A n \in (DOMAIN FontDict(step_context.reference))
                     \cap (DOMAIN FontDict(step_context.new)) :
            /\ Len(FontRecords("size", n)) <= 1
            /\ Len(FontRecords("style", n)) <= 1
            /\ Len(FontRecords("color", n)) <= 1
            /\ Len(FontRecords("style", n)) > 0 => step_context.config.style_check
            /\ Len(FontRecords("color", n)) > 0 => step_context.config.color_check

\* C26 as stated: a comparator given fonts that lack size, style or color
\* keys, or layouts that lack margins, returns a list and does not raise.
C26_MissingOptionalFieldsNeverRaise ==
    (caller \in ComparatorNames) => pc # "raised"

----------------------------------------------------------------------------
(* Workflow.execute on workflows of generic tasks, among them one whose    *)
(* steps have three different names and one that uses a name twice.        *)

ContextWorkflows ==
    { << WorkflowStep("a", "t1", {}), WorkflowStep("b", "t2", {"a"}),
         WorkflowStep("c", "t1", {"a", "b"}) >>,
      << WorkflowStep("a", "t1", {}), WorkflowStep("a", "t2", {}),
         WorkflowStep("b", "t1", {"a"}) >>,
      << WorkflowStep("b", "t1", {}), WorkflowStep("a", "t1", {}) >> }

InitContext ==
    /\ tasks = [n \in TaskNames |->
                    Task("generic", DefaultTimeout, DefaultRetryAttempts)]
    /\ steps \in ContextWorkflows
    /\ pc = "setup"
    /\ idx = 0
    /\ results = <<>>
    /\ context \in {EmptyDict, [k \in {"k1"} |-> 0]}
    /\ step_context = EmptyDict
    /\ status = <<>>
    /\ calls = <<>>
    /\ attempts = 0
    /\ error = NoError
    /\ returned = None
    /\ caller = ""
    /\ learning_module = MockLoadData(Missing)
    /\ sessions = EmptyDict
    /\ disk = Missing
    /\ clock = 0
    /\ patterns = EmptyDict
    /\ statistics = EmptyDict
    /\ frequent_changes = EmptyDict
    /\ performance_metrics = EmptyDict
    /\ store_pc = "down"
    /\ mutations = 0
    /\ history = <<>>
    /\ recorded = EmptyDict
    /\ performed = EmptyDict

NextContext ==
    \/ Execute
    \/ StepInvoke
    \/ TaskReturn
    \/ TaskRaise
    \/ Finish

SpecContext == InitContext /\ [][NextContext]_vars

\* the context overlaid with a step output: a dict output adds its keys and
\* replaces those already there, any other output adds nothing
Overlay(ctx, out) ==
    IF out.isdict
    THEN [k \in (DOMAIN ctx) \cup (DOMAIN out.d) |->
             IF k \in DOMAIN out.d THEN out.d[k] ELSE ctx[k]]
    ELSE ctx

\* the task of a step is called with the initial context if the step is
\* the first, and otherwise with the context of the step before overlaid
\* with that step's output; the initial context stays as it was
ContextThreaded ==
    (pc = "loop" /\ pc' = "running") =>
        /\ context' = context
        /\ step_context' =
               IF idx = 1 THEN context
               ELSE Overlay(step_context,
                            ResultGet(results, TopologicalSort(steps)[idx - 1].name))

DistinctStepNames ==
    \A i, j \in 1..Len(steps) : i # j => steps[i].name # steps[j].name

\* C27 as stated, for every workflow: each step is given the initial context
\* overlaid with the dict outputs of all steps completed before it, in the
\* order they completed.
C27_ContextIsOverlayOfAllOutputs == [][ContextThreaded]_vars

\* C27 for workflows whose step names are pairwise distinct: each step is
\* given the initial context overlaid with the dict outputs of all steps
\* completed before it, in the order they completed (a later output wins a
\* key, an output wins over the initial context, a non-dict output adds
\* nothing), and the initial context is not modified.
C27_ContextIsOverlayForDistinctNames ==
    [][DistinctStepNames => ContextThreaded]_vars

C27_Witness ==
    /\ caller = "execute"
    /\ DistinctStepNames
    /\ pc = "running"
    /\ idx = 3
    /\ context = [k \in {"k1"} |-> 0]
    /\ ResultGet(results, "a") = DictOut([k \in {"k1"} |-> 1])
    /\ ResultGet(results, "b") = DictOut([k \in {"k1"} |-> 2])
    /\ step_context = [k \in {"k1"} |-> 2]

----------------------------------------------------------------------------
(* Several agents on one storage path.  The Streamlit page constructs one  *)
(* PDFComparisonNeuroAgent per browser session (streamlit_app.py 245-246), *)
(* each agent constructs its own LearningModule (neuro_agent.py 50), and   *)
(* every module is bound to the default path models/learning_data.json.    *)
(* A module reads the file in its constructor only; update_patterns        *)
(* changes the module's own dict and rewrites the whole file from it.      *)
(* Each action below is one complete call, so the calls of the sessions    *)
(* happen strictly one after another.                                      *)

SessionIds == {"s1", "s2"}

\* what update_patterns is called with: the record update_learning builds
\* for a file, and a record carrying a type and a severity
SessionData ==
    { [filename |-> "f1.pdf", differences |-> [total_changes |-> 1],
       timestamp |-> 0],
      [type |-> "text", severity |-> "minor"] }

(* a session starts: LearningModule() loads the file as it is now *)
SessionStart ==
    /\ \E s \in SessionIds :
          /\ s \notin DOMAIN sessions
          /\ sessions' = DictUpdate(sessions, [k \in {s} |-> MockLoadData(disk)])
    /\ UNCHANGED <<patterns, statistics, frequent_changes, performance_metrics,
                   store_pc, mutations, history, recorded, performed>>
    /\ UNCHANGED lmVars
    /\ UNCHANGED wfVars

(* a session's module records a result: update_patterns with its save *)
SessionUpdatePatterns ==
    /\ mutations < MaxMutations
    /\ \E s \in DOMAIN sessions, comparison_data \in SessionData :
          LET lm == MockUpdatePatterns(sessions[s], comparison_data, clock)
              key == MockExtractPatternKey(comparison_data)
          IN  \E file \in MockSaveData(lm, disk) :
                 /\ sessions' = [sessions EXCEPT ![s] = lm]
                 /\ disk' = file
                 /\ recorded' = DictUpdate(recorded,
                        [k \in {key} |-> Append(DictGet(recorded, key, <<>>), clock)])
                 /\ history' = Append(history, [lm |-> lm, file |-> file])
    /\ mutations' = mutations + 1
    /\ UNCHANGED <<patterns, statistics, frequent_changes, performance_metrics,
                   store_pc, performed, learning_module, clock>>
    /\ UNCHANGED wfVars

NextInstances ==
    \/ SessionStart
    \/ SessionUpdatePatterns
    \/ Tick

SpecInstances == Init /\ [][NextInstances]_vars

\* every _save_data so far wrote its document
AllSaved ==
    \A i \in 1..Len(history) : history[i].file = Document(MockDocument(history[i].lm))

\* C28: when the modules of several sessions bound to one storage path make
\* their calls strictly one after another and every save writes its
\* document, the file holds every pattern recorded through any of them, with
\* the count update_patterns gives that number of recordings (0 for the
\* first, one more for each further one).
C28_NoRecordingLost ==
    AllSaved =>
        \A key \in DOMAIN recorded :
            /\ disk.kind = "doc"
            /\ key \in DOMAIN DictGet(disk.doc, "patterns", EmptyDict)
            /\ disk.doc.patterns[key].count = Len(recorded[key]) - 1

----------------------------------------------------------------------------
(* The learn step of the comparison workflow.                              *)

\* the categories in which a compared file's result holds records
Categories(file_diff) ==
    {cat \in {"text", "images", "fonts"} : Len(file_diff[cat]) > 0}

\* the files of the compare step's output that update_learning files
Filed(differences) ==
    {f \in DOMAIN differences : "error" \notin DOMAIN differences[f]}

\* C29: once the learn step has filed the results of a run, files whose
\* results hold records of different categories are under different pattern
\* keys: the module holds at least as many patterns as there are distinct
\* sets of categories among the filed results.
C29_DifferentResultsUnderDifferentPatterns ==
    ( /\ caller = "run_comparison_workflow"
      /\ "learn" \in ResultKeys(results)
      /\ "patterns_updated" \in DOMAIN ResultGet(results, "learn").d )
    => LET differences == ResultGet(results, "compare").d.differences
       IN  Cardinality(DOMAIN learning_module.patterns)
               >= Cardinality({Categories(differences[f]) : f \in Filed(differences)})

----------------------------------------------------------------------------
(* Images in the compare step.                                             *)

\* the indexes present in both documents at which the image payloads differ
ChangedImageIndexes(content) ==
    {i \in 1..Min(Len(content.reference.images), Len(content.new.images)) :
        content.reference.images[i] # content.new.images[i]}

\* C30: in the output of compare_content, a file that was compared and
\* whose documents hold different images at some common index has an image
\* difference, also when both documents hold the same number of images.
C30_ChangedImageIsReported ==
    (caller = "compare_content" /\ pc = "called") =>
        LET parsed == step_context.parsed_content
            differences == ResultGet(results, "compare").d.differences
        IN  \A f \in DOMAIN parsed :
               ( /\ ~HasErrorKey(parsed[f].reference)
                 /\ ~HasErrorKey(parsed[f].new)
                 /\ ~(f \in DOMAIN differences /\ HasErrorKey(differences[f]))
                 /\ ChangedImageIndexes(parsed[f]) # {} )
               => /\ f \in DOMAIN differences
                  /\ differences[f].images # <<>>

====
